---- MODULE Spec2Model ----
(***************************************************************************)
(* A model of logr's log-tailing engine (src-tauri/src):                   *)
(*   - infrastructure/file_system/file_watcher.rs  (NotifyFileWatcher)     *)
(*   - application/state.rs                        (LogWatcherState)       *)
(*   - domain/parsing/laravel.rs                   (LaravelLogParser)      *)
(*                                                                         *)
(* Text is a sequence of one-character strings.  NL is the line feed.  A   *)
(* character stands for a token of the log formats the parser recognises:  *)
(*   "L"  a Laravel header "[YYYY-MM-DD HH:MM:SS] channel.LEVEL:"          *)
(*   "#"  a stack frame prefix "#N "                                       *)
(*   "@"  one of the keywords at / in / thrown followed by white space     *)
(*   "S"  one of the markers "Stack trace:" / "[stacktrace]"               *)
(*   " "  a white space character                                          *)
(*   "?"  a byte sequence that is not valid UTF-8                          *)
(*   "a", "x"  any other text                                              *)
(***************************************************************************)
EXTENDS Integers, Sequences, FiniteSets, TLC

VARIABLES
    fs,              \* the file system: path -> bytes of each existing file
    watched,         \* paths registered with the notify backend
    notify_rx,       \* raw notifications waiting for the classifier thread
    file_states,     \* NotifyFileWatcher.file_states: path -> FileState
    event_rx,        \* classified FileWatchEvents waiting for the consumer
    cl,              \* the classifier thread: position and locals
    cmd,             \* the command in progress (it holds the state lock)
    sources,         \* LogWatcherState.sources: id -> LogSource
    path_to_source,  \* LogWatcherState.path_to_source
    entries,         \* LogWatcherState.entries: id -> ledger
    next_id,         \* LogWatcherState.next_id
    hist,            \* history of the run, read by the properties only
    batch,           \* the lines handed to the parser by a harness
    out,             \* the operation a harness applied last, and its result
    wm               \* WindowManagerState: windows and index_to_label

vars == <<fs, watched, notify_rx, file_states, event_rx, cl, cmd, sources,
          path_to_source, entries, next_id, hist, batch, out, wm>>

engine_vars == <<fs, watched, notify_rx, file_states, event_rx, cl, cmd,
                 sources, path_to_source, entries, next_id, hist>>

parse_vars == <<batch, out>>

-----------------------------------------------------------------------------
(* Bounds of the model *)

\* writes (appends, truncations, creations) the environment performs
MaxWrites == 3
\* truncations among them
MaxTruncs == 1
\* lines the writer appends while commands and the classifier run together
MaxThreadWrites == 2
\* lines of a parser batch
MaxBatch == 4
\* sources ever registered
MaxSources == 2
\* lines of a file read by read_initial_content
MaxFileLines == 3
\* the largest limit passed to get_entries and read_initial_content
MaxLimit == 3
\* calls of read_initial_content that reach a file
MaxReads == 1
\* sources that are given a window
MaxWindows == 3

-----------------------------------------------------------------------------
(* Text *)

NL == "\n"

RECURSIVE IndexOfNL(_, _)
IndexOfNL(s, i) ==
    IF i > Len(s) THEN 0
    ELSE IF s[i] = NL THEN i
    ELSE IndexOfNL(s, i + 1)

\* The lines of a text: split at line feeds, the final line feed optional.
RECURSIVE SplitLines(_)
SplitLines(s) ==
    IF s = <<>> THEN <<>>
    ELSE LET k == IndexOfNL(s, 1)
         IN IF k = 0 THEN <<s>>
            ELSE <<SubSeq(s, 1, k - 1)>> \o SplitLines(SubSeq(s, k + 1, Len(s)))

\* BufReader::lines() over the bytes of a file from an offset on
ReaderLines(bytes) == SplitLines(bytes)

\* str::lines() over the content of an event
ContentLines(content) == SplitLines(content)

\* a line BufRead::lines yields as Err: it holds bytes that are not UTF-8
IsInvalid(line) == \E i \in 1..Len(line) : line[i] = "?"

\* the lines a loop over reader.lines() collects when it breaks at the first
\* Err
RECURSIVE UntilError(_)
UntilError(lines) ==
    IF lines = <<>> \/ IsInvalid(Head(lines)) THEN <<>>
    ELSE <<Head(lines)>> \o UntilError(Tail(lines))

\* new_content of handle_file_modification: a separator is pushed only when
\* the text collected so far is not empty.
RECURSIVE PushLines(_, _)
PushLines(new_content, lines) ==
    IF lines = <<>> THEN new_content
    ELSE PushLines((IF new_content # <<>> THEN Append(new_content, NL)
                                          ELSE new_content) \o Head(lines),
                   Tail(lines))

NewContent(lines) == PushLines(<<>>, lines)

\* the bytes of a file from offset `from` (SeekFrom::Start) to its end
BytesFrom(bytes, from) == SubSeq(bytes, from + 1, Len(bytes))

\* the bytes of a file in [from, to)
BytesBetween(bytes, from, to) ==
    SubSeq(bytes, from + 1, IF to < Len(bytes) THEN to ELSE Len(bytes))

-----------------------------------------------------------------------------
(* Paths *)

\* a plain file outside every watched folder
F == "/r/app.log"
\* a directory, and a file in it whose name matches LogGlob
D == "/d"
G == "/d/x.log"
\* a second file of D whose name matches LogGlob, and one whose name does not
H == "/d/y.log"
Z == "/d/z.txt"
\* a file of a sibling directory, and a file of a subdirectory of D
E == "/e/x.log"
N == "/d/s/x.log"

LogGlob == "*.log"

Files == {F, G, H, Z, E, N}
Dirs == {D, "/r", "/e", "/d/s", "/"}

\* Path::parent
Parent(path) ==
    CASE path \in {G, H, Z, "/d/s"} -> D
      [] path = F -> "/r"
      [] path = E -> "/e"
      [] path = N -> "/d/s"
      [] path \in {D, "/r", "/e"} -> "/"
      [] OTHER -> ""

\* Path::file_name
FileName(path) ==
    CASE path \in {G, E, N} -> "x.log"
      [] path = H -> "y.log"
      [] path = Z -> "z.txt"
      [] path = F -> "app.log"
      [] OTHER -> ""

\* Path::starts_with: `base` is the path itself or one of its ancestors
RECURSIVE StartsWith(_, _)
StartsWith(path, base) ==
    /\ path # ""
    /\ \/ path = base
       \/ StartsWith(Parent(path), base)

\* glob::Pattern::matches
GlobMatches(pattern, name) ==
    pattern = LogGlob /\ name \in {"x.log", "y.log", "app.log"}

\* what the notify backend reports for a change of `path`: a watch on the
\* path itself or (non-recursive) on its directory makes the change visible
Notified(path) == path \in watched \/ Parent(path) \in watched

Notify(kind, path) ==
    IF Notified(path) THEN Append(notify_rx, [kind |-> kind, path |-> path])
    ELSE notify_rx

-----------------------------------------------------------------------------
(* The Laravel parser, domain/parsing/laravel.rs *)

IsSpace(c) == c = " "

RECURSIVE TrimStart(_)
TrimStart(line) ==
    IF line # <<>> /\ IsSpace(Head(line)) THEN TrimStart(Tail(line)) ELSE line

\* line.trim().is_empty()
TrimIsEmpty(line) == TrimStart(line) = <<>>

\* LARAVEL_LOG_REGEX, anchored at the start of the line
CanParse(line) == line # <<>> /\ line[1] = "L"

\* STACK_TRACE_REGEX  ^#\d+\s+
StackTraceRegex(line) == line # <<>> /\ line[1] = "#"

\* CONTINUATION_REGEX  ^\s+(?:at|in|thrown)\s+
ContinuationRegex(line) ==
    /\ line # <<>>
    /\ IsSpace(line[1])
    /\ TrimStart(line) # <<>>
    /\ Head(TrimStart(line)) = "@"

IsStackTraceLine(line) ==
    \/ StackTraceRegex(line)
    \/ ContinuationRegex(line)
    \/ (TrimStart(line) # <<>> /\ Head(TrimStart(line)) = "S")

NoEntry == [line_number |-> 0, raw |-> <<>>, format |-> "none", level |-> "none",
            message |-> <<>>, context |-> "none", stack_trace |-> <<>>]

\* LaravelLogParser::parse: Some(entry) when the header matches.  The message
\* is the text after the header and the white space that follows it; none of
\* the tokens is a JSON context, so extract_context finds none.
Parse(line, line_number) ==
    IF CanParse(line)
    THEN [line_number |-> line_number, raw |-> line, format |-> "laravel",
          level |-> "parsed", message |-> TrimStart(Tail(line)),
          context |-> "none", stack_trace |-> <<>>]
    ELSE NoEntry

\* LogEntry::from_raw
FromRaw(raw, line_number) ==
    [line_number |-> line_number, raw |-> raw, format |-> "raw",
     level |-> "info", message |-> raw, context |-> "none", stack_trace |-> <<>>]

\* CollectStackTrace collecting recognised stack trace lines only
RECURSIVE CollectStackTraceStrict(_, _)
CollectStackTraceStrict(stack_trace, rest) ==
    IF rest = <<>> THEN stack_trace
    ELSE LET line == Head(rest)
         IN IF CanParse(line) THEN stack_trace
            ELSE IF IsStackTraceLine(line)
                 THEN CollectStackTraceStrict(Append(stack_trace, line), Tail(rest))
            ELSE IF TrimIsEmpty(line) /\ stack_trace # <<>>
                 THEN CollectStackTraceStrict(Append(stack_trace, line), Tail(rest))
            ELSE stack_trace

\* the loop of parse_multiline over lines.iter().skip(1): the stack trace
\* collected from `rest`, given the lines collected so far
RECURSIVE CollectStackTrace(_, _)
CollectStackTrace(stack_trace, rest) ==
    IF rest = <<>> THEN stack_trace
    ELSE LET line == Head(rest)
         IN IF CanParse(line) THEN stack_trace
            ELSE IF IsStackTraceLine(line) \/ ~TrimIsEmpty(line)
                 THEN CollectStackTrace(Append(stack_trace, line), Tail(rest))
            ELSE IF TrimIsEmpty(line) /\ stack_trace # <<>>
                 THEN CollectStackTrace(Append(stack_trace, line), Tail(rest))
            ELSE stack_trace

\* LaravelLogParser::parse_multiline: [entry, consumed], consumed = 0 for None
ParseMultiline(lines, start_line) ==
    IF lines = <<>> \/ ~CanParse(Head(lines))
    THEN [entry |-> NoEntry, consumed |-> 0]
    ELSE LET stack_trace == CollectStackTrace(<<>>, Tail(lines))
         IN [entry |-> [Parse(Head(lines), start_line)
                           EXCEPT !.stack_trace = stack_trace],
             consumed |-> 1 + Len(stack_trace)]

\* parse_line that never asks a parser
ParseLineRawOnly(line, line_number) == FromRaw(line, line_number)

\* LogWatcherState::parse_line with the one parser of LogWatcherState::new
ParseLine(line, line_number) ==
    IF Parse(line, line_number) # NoEntry THEN Parse(line, line_number)
    ELSE FromRaw(line, line_number)

\* ParseLinesMultilineFrom with the cursor advanced by one line after a
\* multiline record as well
RECURSIVE ParseLinesMultilineSkip(_, _)
ParseLinesMultilineSkip(lines, i) ==
    IF i > Len(lines) THEN <<>>
    ELSE LET line_number == lines[i][1]
             remaining == [k \in 1..(Len(lines) - i + 1) |-> lines[i + k - 1][2]]
             multi == ParseMultiline(remaining, line_number)
         IN IF CanParse(remaining[1]) /\ multi.consumed > 0
            THEN <<multi.entry>> \o ParseLinesMultilineSkip(lines, i + 1)
            ELSE <<ParseLine(remaining[1], line_number)>>
                     \o ParseLinesMultilineSkip(lines, i + 1)

\* LogWatcherState::parse_lines_multiline over (line number, text) pairs
RECURSIVE ParseLinesMultilineFrom(_, _)
ParseLinesMultilineFrom(lines, i) ==
    IF i > Len(lines) THEN <<>>
    ELSE LET line_number == lines[i][1]
             remaining == [k \in 1..(Len(lines) - i + 1) |-> lines[i + k - 1][2]]
             multi == ParseMultiline(remaining, line_number)
         IN IF CanParse(remaining[1]) /\ multi.consumed > 0
            THEN <<multi.entry>> \o ParseLinesMultilineFrom(lines, i + multi.consumed)
            ELSE <<ParseLine(remaining[1], line_number)>>
                     \o ParseLinesMultilineFrom(lines, i + 1)

ParseLinesMultiline(lines) == ParseLinesMultilineFrom(lines, 1)

\* the entries process_file_event builds from a ContentAppended event
ContentEntries(content, line_number) ==
    LET lines == ContentLines(content)
    IN [i \in 1..Len(lines) |->
           ParseLine(lines[i], line_number - Len(lines) + (i - 1) + 1)]

-----------------------------------------------------------------------------
(* Helpers on maps *)

Remove(map, key) == [k \in DOMAIN map \ {key} |-> map[k]]

Put(map, key, value) == [k \in DOMAIN map \cup {key} |->
                            IF k = key THEN value ELSE map[k]]


ClIdle == [pc |-> "idle", path |-> "", current_size |-> 0, previous_size |-> 0,
           line_number |-> 0]

CmdIdle == [pc |-> "idle", path |-> "", pattern |-> "", file_path |-> "",
            todo |-> {}, initial_size |-> 0, line_count |-> 0]

\* None, for the result of get_source_id_for_path
NoSource == 0

\* a SourceStatusEvent emitted to the frontend
StatusEvent(source_id, status, error_message) ==
    [source_id |-> source_id, status |-> status, error_message |-> error_message]

NoStatusEvent == StatusEvent(NoSource, "none", "")

\* no operation applied
OutIdle == [op |-> "none", arg |-> "", id |-> 0, limit |-> 0, ret |-> "",
            entries |-> <<>>, consumed |-> 0]

\* the (line number, text) pairs read_initial_content hands to the parser
Numbered(lines, first) == [i \in 1..Len(lines) |-> <<first + i - 1, lines[i]>>]

\* a FileWatchEvent; the message is that of the Error variant
Event(type, path, content, line_number) ==
    [type |-> type, path |-> path, content |-> content, line_number |-> line_number,
     message |-> ""]

\* the message of the Error event sent when File::open fails
OpenFailed == "Failed to open file"

ErrorEvent(path, message) ==
    [Event("Error", path, <<>>, 0) EXCEPT !.message = message]

-----------------------------------------------------------------------------
(* The environment: programs that write the watched files *)

\* a writer appends one complete line to a file
AppendLine(path, line) ==
    /\ path \in DOMAIN fs
    /\ hist.writes < MaxWrites
    /\ fs' = [fs EXCEPT ![path] = @ \o line \o <<NL>>]
    /\ notify_rx' = Notify("Modify", path)
    /\ hist' = [hist EXCEPT !.writes = @ + 1,
                            !.after_status = @ \/ hist.status_event # NoStatusEvent]
    /\ UNCHANGED <<wm, batch, out, watched, file_states, event_rx, cl, cmd, sources,
                   path_to_source, entries, next_id>>

\* a writer appends bytes that need not end a line
AppendBytes(path, bytes) ==
    /\ path \in DOMAIN fs
    /\ hist.writes < MaxWrites
    /\ fs' = [fs EXCEPT ![path] = @ \o bytes]
    /\ notify_rx' = Notify("Modify", path)
    /\ hist' = [hist EXCEPT !.writes = @ + 1]
    /\ UNCHANGED <<wm, batch, out, watched, file_states, event_rx, cl, cmd, sources,
                   path_to_source, entries, next_id>>

\* a writer truncates a file to length 0
Truncate(path) ==
    /\ path \in DOMAIN fs
    /\ fs[path] # <<>>
    /\ hist.writes < MaxWrites
    /\ hist.truncs < MaxTruncs
    /\ fs' = [fs EXCEPT ![path] = <<>>]
    /\ notify_rx' = Notify("Modify", path)
    /\ hist' = [hist EXCEPT !.writes = @ + 1, !.truncs = @ + 1]
    /\ UNCHANGED <<wm, batch, out, watched, file_states, event_rx, cl, cmd, sources,
                   path_to_source, entries, next_id>>

\* a writer creates an empty file
CreateFile(path) ==
    /\ path \notin DOMAIN fs
    /\ hist.writes < MaxWrites
    /\ fs' = Put(fs, path, <<>>)
    /\ notify_rx' = Notify("Create", path)
    /\ hist' = [hist EXCEPT !.writes = @ + 1,
                            !.late = Parent(path) \in DOMAIN path_to_source]
    /\ UNCHANGED <<wm, batch, out, watched, file_states, event_rx, cl, cmd, sources,
                   path_to_source, entries, next_id>>

\* a writer deletes a file.  The backend reports the removal; whether it
\* keeps the watch of the deleted path depends on the platform.
DeleteFile(path) ==
    /\ path \in DOMAIN fs
    /\ hist.writes < MaxWrites
    /\ fs' = Remove(fs, path)
    /\ notify_rx' = Notify("Remove", path)
    /\ watched' \in {watched, watched \ {path}}
    /\ hist' = [hist EXCEPT !.writes = @ + 1]
    /\ UNCHANGED <<wm, batch, out, file_states, event_rx, cl, cmd, sources,
                   path_to_source, entries, next_id>>

\* a writer renames a file to a name that is free.  The backend reports a
\* name change for the old path and for the new one.
RenameFile(from, to) ==
    /\ from \in DOMAIN fs
    /\ to \notin DOMAIN fs
    /\ hist.writes < MaxWrites
    /\ fs' = Put(Remove(fs, from), to, fs[from])
    /\ notify_rx' = notify_rx
                     \o (IF Notified(from) THEN <<[kind |-> "Rename", path |-> from]>>
                         ELSE <<>>)
                     \o (IF Notified(to) THEN <<[kind |-> "Rename", path |-> to]>>
                         ELSE <<>>)
    /\ hist' = [hist EXCEPT !.writes = @ + 1]
    /\ UNCHANGED <<wm, batch, out, watched, file_states, event_rx, cl, cmd, sources,
                   path_to_source, entries, next_id>>

-----------------------------------------------------------------------------
(* The classifier thread: process_notify_events, handle_notify_event and     *)
(* handle_file_modification of file_watcher.rs.  file_states is locked three *)
(* separate times in handle_file_modification; each is a step of its own.    *)

\* std::fs::metadata(path) fails for a file that does not exist
MetadataOk(path) == path \in DOMAIN fs

\* the (size, line_number) pair read under the first lock, (0, 0) for a path
\* that is not tracked
StoredState(path) ==
    IF path \in DOMAIN file_states
    THEN <<file_states[path].size, file_states[path].line_number>>
    ELSE <<0, 0>>

\* Classify with the truncation test made non-strict
ClassifyLax(current_size, previous_size) ==
    IF current_size <= previous_size THEN "truncate"
    ELSE IF current_size > previous_size THEN "read"
    ELSE "idle"

\* the branch handle_file_modification takes
Classify(current_size, previous_size) ==
    IF current_size < previous_size THEN "truncate"
    ELSE IF current_size > previous_size THEN "read"
    ELSE "idle"

\* the lines read after the seek: from previous_size to the end of the file
LinesRead(bytes, previous_size, current_size) ==
    ReaderLines(BytesFrom(bytes, previous_size))

\* ClReceive that leaves the FileState of a removed path in place
ClReceiveKeepState ==
    /\ cl.pc = "idle"
    /\ notify_rx # <<>>
    /\ notify_rx' = Tail(notify_rx)
    /\ LET ev == Head(notify_rx)
       IN CASE ev.kind = "Create" ->
                 /\ event_rx' = Append(event_rx, Event("FileCreated", ev.path, <<>>, 0))
                 /\ UNCHANGED <<cl, file_states>>
            [] ev.kind = "Remove" ->
                 /\ file_states' = file_states
                 /\ event_rx' = Append(event_rx, Event("FileDeleted", ev.path, <<>>, 0))
                 /\ UNCHANGED cl
            [] ev.kind = "Modify" ->
                 /\ IF MetadataOk(ev.path)
                    THEN cl' = [ClIdle EXCEPT !.pc = "lock", !.path = ev.path,
                                              !.current_size = Len(fs[ev.path])]
                    ELSE cl' = ClIdle
                 /\ UNCHANGED <<event_rx, file_states>>
            [] OTHER -> UNCHANGED <<cl, event_rx, file_states>>
    /\ UNCHANGED <<wm, batch, out, fs, watched, cmd, sources, path_to_source, entries, next_id, hist>>

\* ClReceive that starts tracking a created file
ClReceiveTrackCreated ==
    /\ cl.pc = "idle"
    /\ notify_rx # <<>>
    /\ notify_rx' = Tail(notify_rx)
    /\ LET ev == Head(notify_rx)
       IN CASE ev.kind = "Create" ->
                 /\ event_rx' = Append(event_rx, Event("FileCreated", ev.path, <<>>, 0))
                 /\ file_states' = Put(file_states, ev.path,
                                       [size |-> 0, line_number |-> 0])
                 /\ UNCHANGED cl
            [] ev.kind = "Remove" ->
                 /\ file_states' = Remove(file_states, ev.path)
                 /\ event_rx' = Append(event_rx, Event("FileDeleted", ev.path, <<>>, 0))
                 /\ UNCHANGED cl
            [] ev.kind = "Modify" ->
                 /\ IF MetadataOk(ev.path)
                    THEN cl' = [ClIdle EXCEPT !.pc = "lock", !.path = ev.path,
                                              !.current_size = Len(fs[ev.path])]
                    ELSE cl' = ClIdle
                 /\ UNCHANGED <<event_rx, file_states>>
            [] OTHER -> UNCHANGED <<cl, event_rx, file_states>>
    /\ UNCHANGED <<wm, batch, out, fs, watched, cmd, sources, path_to_source, entries, next_id, hist>>

\* ClReceive that reports a failed metadata read as an Error event
ClReceiveMetadataError ==
    /\ cl.pc = "idle"
    /\ notify_rx # <<>>
    /\ notify_rx' = Tail(notify_rx)
    /\ LET ev == Head(notify_rx)
       IN CASE ev.kind = "Create" ->
                 /\ event_rx' = Append(event_rx, Event("FileCreated", ev.path, <<>>, 0))
                 /\ UNCHANGED <<cl, file_states>>
            [] ev.kind = "Remove" ->
                 /\ file_states' = Remove(file_states, ev.path)
                 /\ event_rx' = Append(event_rx, Event("FileDeleted", ev.path, <<>>, 0))
                 /\ UNCHANGED cl
            [] ev.kind = "Modify" ->
                 /\ IF MetadataOk(ev.path)
                    THEN cl' = [ClIdle EXCEPT !.pc = "lock", !.path = ev.path,
                                              !.current_size = Len(fs[ev.path])]
                    ELSE cl' = ClIdle
                 /\ event_rx' = IF MetadataOk(ev.path) THEN event_rx
                                 ELSE Append(event_rx, ErrorEvent(ev.path, OpenFailed))
                 /\ UNCHANGED file_states
            [] OTHER -> UNCHANGED <<cl, event_rx, file_states>>
    /\ UNCHANGED <<wm, batch, out, fs, watched, cmd, sources, path_to_source, entries, next_id, hist>>

\* for rx: take the next raw notification and dispatch on its kind; for a
\* modification, read the metadata
ClReceive ==
    /\ cl.pc = "idle"
    /\ notify_rx # <<>>
    /\ notify_rx' = Tail(notify_rx)
    /\ LET ev == Head(notify_rx)
       IN CASE ev.kind = "Create" ->
                 /\ event_rx' = Append(event_rx, Event("FileCreated", ev.path, <<>>, 0))
                 /\ UNCHANGED <<cl, file_states>>
            [] ev.kind = "Remove" ->
                 /\ file_states' = Remove(file_states, ev.path)
                 /\ event_rx' = Append(event_rx, Event("FileDeleted", ev.path, <<>>, 0))
                 /\ UNCHANGED cl
            [] ev.kind = "Modify" ->
                 /\ IF MetadataOk(ev.path)
                    THEN cl' = [ClIdle EXCEPT !.pc = "lock", !.path = ev.path,
                                              !.current_size = Len(fs[ev.path])]
                    ELSE cl' = ClIdle
                 /\ UNCHANGED <<event_rx, file_states>>
            [] OTHER -> UNCHANGED <<cl, event_rx, file_states>>
    /\ UNCHANGED <<wm, batch, out, fs, watched, cmd, sources, path_to_source, entries, next_id, hist>>

\* first lock: read the stored state and choose the branch
ClLock ==
    /\ cl.pc = "lock"
    /\ LET st == StoredState(cl.path)
           branch == Classify(cl.current_size, st[1])
       IN cl' = IF branch = "idle" THEN ClIdle
                ELSE [cl EXCEPT !.pc = branch, !.previous_size = st[1],
                                !.line_number = st[2]]
    /\ UNCHANGED <<wm, batch, out, fs, watched, notify_rx, file_states, event_rx, cmd, sources,
                   path_to_source, entries, next_id, hist>>

\* the file shrank: reset the state if the path is still tracked, emit
\* FileTruncated, read nothing
ClTruncate ==
    /\ cl.pc = "truncate"
    /\ file_states' = IF cl.path \in DOMAIN file_states
                      THEN [file_states EXCEPT ![cl.path] =
                               [size |-> 0, line_number |-> 0]]
                      ELSE file_states
    /\ event_rx' = Append(event_rx, Event("FileTruncated", cl.path, <<>>, 0))
    /\ cl' = ClIdle
    /\ UNCHANGED <<wm, batch, out, fs, watched, notify_rx, cmd, sources, path_to_source, entries,
                   next_id, hist>>

\* ClRead over a channel that holds one event: the event is sent only when
\* the consumer has taken the one before
ClReadBounded ==
    /\ cl.pc = "read"
    /\ IF cl.path \notin DOMAIN fs
       THEN /\ event_rx' = Append(event_rx, ErrorEvent(cl.path, OpenFailed))
            /\ cl' = ClIdle
       ELSE LET lines == UntilError(LinesRead(fs[cl.path], cl.previous_size,
                                              cl.current_size))
                new_content == NewContent(lines)
                line_number == cl.line_number + Len(lines)
            IN /\ event_rx' = IF new_content # <<>> /\ event_rx = <<>>
                              THEN Append(event_rx, Event("ContentAppended", cl.path,
                                                          new_content, line_number))
                              ELSE event_rx
               /\ cl' = [cl EXCEPT !.pc = "update", !.line_number = line_number]
    /\ UNCHANGED <<wm, batch, out, fs, watched, notify_rx, file_states, cmd, sources,
                   path_to_source, entries, next_id, hist>>

\* the file grew: open it, seek to previous_size, read lines until the end of
\* the file or the first line that fails to read, emit them
\* the read that sends the line number the path had before the read
ClReadUncounted ==
    /\ cl.pc = "read"
    /\ IF cl.path \notin DOMAIN fs
       THEN /\ event_rx' = Append(event_rx, ErrorEvent(cl.path, OpenFailed))
            /\ cl' = ClIdle
       ELSE LET lines == UntilError(LinesRead(fs[cl.path], cl.previous_size,
                                              cl.current_size))
                new_content == NewContent(lines)
            IN /\ event_rx' = IF new_content # <<>>
                              THEN Append(event_rx, Event("ContentAppended", cl.path,
                                                          new_content, cl.line_number))
                              ELSE event_rx
               /\ cl' = [cl EXCEPT !.pc = "update",
                                   !.line_number = cl.line_number + Len(lines)]
    /\ UNCHANGED <<wm, batch, out, fs, watched, notify_rx, file_states, cmd, sources,
                   path_to_source, entries, next_id, hist>>

ClRead ==
    /\ cl.pc = "read"
    /\ IF cl.path \notin DOMAIN fs
       THEN /\ event_rx' = Append(event_rx, ErrorEvent(cl.path, OpenFailed))
            /\ cl' = ClIdle
       ELSE LET lines == UntilError(LinesRead(fs[cl.path], cl.previous_size,
                                              cl.current_size))
                new_content == NewContent(lines)
                line_number == cl.line_number + Len(lines)
            IN /\ event_rx' = IF new_content # <<>>
                              THEN Append(event_rx, Event("ContentAppended", cl.path,
                                                          new_content, line_number))
                              ELSE event_rx
               /\ cl' = [cl EXCEPT !.pc = "update", !.line_number = line_number]
    /\ UNCHANGED <<wm, batch, out, fs, watched, notify_rx, file_states, cmd, sources,
                   path_to_source, entries, next_id, hist>>

\* ClUpdate that takes the application state lock before it stores the state
ClUpdateUnderStateLock ==
    /\ cl.pc = "update"
    /\ cmd.pc = "idle"
    /\ file_states' = IF cl.path \in DOMAIN file_states
                      THEN [file_states EXCEPT ![cl.path] =
                               [size |-> cl.current_size,
                                line_number |-> cl.line_number]]
                      ELSE file_states
    /\ cl' = ClIdle
    /\ UNCHANGED <<wm, batch, out, fs, watched, notify_rx, event_rx, cmd, sources, path_to_source,
                   entries, next_id, hist>>

\* last lock: store current_size and line_number if the path is tracked
ClUpdate ==
    /\ cl.pc = "update"
    /\ file_states' = IF cl.path \in DOMAIN file_states
                      THEN [file_states EXCEPT ![cl.path] =
                               [size |-> cl.current_size,
                                line_number |-> cl.line_number]]
                      ELSE file_states
    /\ cl' = ClIdle
    /\ UNCHANGED <<wm, batch, out, fs, watched, notify_rx, event_rx, cmd, sources, path_to_source,
                   entries, next_id, hist>>

-----------------------------------------------------------------------------
(* Commands.  Every command runs with the application state lock held (see  *)
(* application/commands/mod.rs), so no other command and no consumer step   *)
(* runs while cmd.pc is not "idle"; the classifier thread and the writers   *)
(* do.                                                                      *)

NewSource(path, source_type, pattern) ==
    [path |-> path, source_type |-> source_type, pattern |-> pattern,
     status |-> "Active", error_message |-> ""]

\* generate_id and the three inserts that end add_file and add_folder
Register(path, source_type, pattern) ==
    /\ sources' = Put(sources, next_id, NewSource(path, source_type, pattern))
    /\ path_to_source' = Put(path_to_source, path, next_id)
    /\ entries' = Put(entries, next_id, <<>>)
    /\ next_id' = next_id + 1

\* SourceIdsForPath without the test of the file name against the glob
SourceIdsForPathAnyName(path) ==
    IF path \in DOMAIN path_to_source THEN {path_to_source[path]}
    ELSE LET found == {path_to_source[wp] : wp \in
                          {w \in DOMAIN path_to_source :
                              /\ path_to_source[w] \in DOMAIN sources
                              /\ sources[path_to_source[w]].source_type = "Folder"
                              /\ StartsWith(Parent(path), w)}}
         IN IF found = {} THEN {NoSource} ELSE found

\* get_source_id_for_path: the ids the lookup can return.  The exact path
\* wins; otherwise any folder source (the map is iterated in no fixed order)
\* whose directory is an ancestor and whose pattern matches the file name.
SourceIdsForPath(path) ==
    IF path \in DOMAIN path_to_source THEN {path_to_source[path]}
    ELSE LET found == {path_to_source[wp] : wp \in
                          {w \in DOMAIN path_to_source :
                              /\ path_to_source[w] \in DOMAIN sources
                              /\ sources[path_to_source[w]].source_type = "Folder"
                              /\ StartsWith(Parent(path), w)
                              /\ GlobMatches(sources[path_to_source[w]].pattern,
                                             FileName(path))}}
         IN IF found = {} THEN {NoSource} ELSE found

\* the registry and the tracked paths, as a command finds them
Snapshot ==
    [sources |-> sources, path_to_source |-> path_to_source, entries |-> entries,
     next_id |-> next_id, tracked |-> DOMAIN file_states]

\* no command is in progress
NoSnapshot ==
    [sources |-> <<>>, path_to_source |-> <<>>, entries |-> <<>>, next_id |-> 0,
     tracked |-> {}]

\* the command that returned last, its argument and its result
Last(call, arg, ret) == [call |-> call, arg |-> arg, ret |-> ret]

\* a path exists: a file of the file system or one of the directories
Exists(path) == path \in DOMAIN fs \/ path \in Dirs

\* WatchFileError with the kind of the path tested before its existence
WatchFileErrorKindFirst(path) ==
    IF path \notin DOMAIN fs THEN "NotAFile"
    ELSE IF ~Exists(path) THEN "FileNotFound"
    ELSE IF path \in DOMAIN file_states THEN "AlreadyWatching"
    ELSE "ok"

\* the checks that open watch_file: "ok" or the WatchError returned
WatchFileError(path) ==
    IF ~Exists(path) THEN "FileNotFound"
    ELSE IF path \notin DOMAIN fs THEN "NotAFile"
    ELSE IF path \in DOMAIN file_states THEN "AlreadyWatching"
    ELSE "ok"

\* the checks of add_file before and in watch_file
AddFileError(path) ==
    IF path = "" THEN "InvalidPath"
    ELSE IF path \in DOMAIN path_to_source THEN "AlreadyWatchingSource"
    ELSE WatchFileError(path)

\* add_file returns an error from its checks: nothing changes
AddFileFail(path) ==
    /\ cmd.pc = "idle"
    /\ AddFileError(path) # "ok"
    /\ hist' = [hist EXCEPT !.last = Last("add_file", path, AddFileError(path))]
    /\ UNCHANGED <<wm, batch, out, fs, watched, notify_rx, file_states, event_rx, cl, cmd,
                   sources, path_to_source, entries, next_id>>

\* add_file up to watch_file's metadata read: the path is not a source yet,
\* exists, is a file, is not tracked; its size is read
AddFileBegin(path) ==
    /\ cmd.pc = "idle"
    /\ next_id <= MaxSources
    /\ path \notin DOMAIN path_to_source
    /\ path \in DOMAIN fs
    /\ path \notin DOMAIN file_states
    /\ cmd' = [CmdIdle EXCEPT !.pc = "file_count", !.path = path,
                              !.initial_size = Len(fs[path])]
    /\ hist' = [hist EXCEPT !.watch_n = Len(ReaderLines(fs[path])),
                            !.pre = Snapshot]
    /\ UNCHANGED <<wm, batch, out, fs, watched, notify_rx, file_states, event_rx, cl, sources,
                   path_to_source, entries, next_id>>

\* watch_file: count the lines of the file; File::open fails for a file that
\* was deleted since the metadata read, and watch_file returns the error
AddFileCount ==
    /\ cmd.pc = "file_count"
    /\ IF cmd.path \in DOMAIN fs
       THEN /\ cmd' = [cmd EXCEPT !.pc = "file_watch",
                                  !.line_count = Len(ReaderLines(fs[cmd.path]))]
            /\ UNCHANGED hist
       ELSE /\ cmd' = CmdIdle
            /\ hist' = [hist EXCEPT !.last = Last("add_file", cmd.path, "Io"),
                                    !.pre = NoSnapshot]
    /\ UNCHANGED <<wm, batch, out, fs, watched, notify_rx, file_states, event_rx, cl, sources,
                   path_to_source, entries, next_id>>

\* watch_file: register the path with the notify backend
AddFileWatch ==
    /\ cmd.pc = "file_watch"
    /\ watched' = watched \cup {cmd.path}
    /\ cmd' = [cmd EXCEPT !.pc = "file_insert"]
    /\ UNCHANGED <<wm, batch, out, fs, notify_rx, file_states, event_rx, cl, sources,
                   path_to_source, entries, next_id, hist>>

\* watch_file: insert the FileState; add_file: register the source
AddFileInsert ==
    /\ cmd.pc = "file_insert"
    /\ file_states' = Put(file_states, cmd.path,
                          [size |-> cmd.initial_size, line_number |-> cmd.line_count])
    /\ Register(cmd.path, "File", "")
    /\ cmd' = CmdIdle
    /\ hist' = [hist EXCEPT !.last = Last("add_file", cmd.path, "ok"),
                            !.pre = NoSnapshot]
    /\ UNCHANGED <<wm, batch, out, fs, watched, notify_rx, event_rx, cl>>

\* a pattern glob::Pattern::new rejects
BadGlob == "["

\* the checks that open watch_directory: "ok" or the WatchError returned
WatchDirectoryError(dir, pattern) ==
    IF ~Exists(dir) THEN "FileNotFound"
    ELSE IF dir \notin Dirs THEN "NotADirectory"
    ELSE IF pattern = BadGlob THEN "WatcherError"
    ELSE "ok"

\* the checks of add_folder before and in watch_directory
AddFolderError(dir, pattern) ==
    IF dir = "" THEN "InvalidPath"
    ELSE IF dir \in DOMAIN path_to_source THEN "AlreadyWatchingSource"
    ELSE WatchDirectoryError(dir, pattern)

\* add_folder returns an error from its checks: nothing changes
AddFolderFail(dir, pattern) ==
    /\ cmd.pc = "idle"
    /\ AddFolderError(dir, pattern) # "ok"
    /\ hist' = [hist EXCEPT !.last = Last("add_folder", dir,
                                          AddFolderError(dir, pattern))]
    /\ UNCHANGED <<wm, batch, out, fs, watched, notify_rx, file_states, event_rx, cl, cmd,
                   sources, path_to_source, entries, next_id>>

\* add_folder up to watch_directory's registration of the directory
AddFolderBegin(dir, pattern) ==
    /\ cmd.pc = "idle"
    /\ next_id <= MaxSources
    /\ dir \notin DOMAIN path_to_source
    /\ dir \in Dirs
    /\ pattern # BadGlob
    /\ watched' = watched \cup {dir}
    /\ cmd' = [CmdIdle EXCEPT !.pc = "dir_list", !.path = dir, !.pattern = pattern]
    /\ hist' = [hist EXCEPT !.pre = Snapshot, !.scanned = {}]
    /\ UNCHANGED <<wm, batch, out, fs, notify_rx, file_states, event_rx, cl, sources,
                   path_to_source, entries, next_id>>

\* the files read_dir lists in `dir` that match the pattern
Matching(dir, pattern) ==
    {p \in DOMAIN fs : Parent(p) = dir /\ GlobMatches(pattern, FileName(p))}

\* watch_directory: read_dir lists the directory
AddFolderList ==
    /\ cmd.pc = "dir_list"
    /\ cmd' = [cmd EXCEPT !.pc = "dir_scan", !.todo = Matching(cmd.path, cmd.pattern)]
    /\ UNCHANGED <<wm, batch, out, fs, watched, notify_rx, file_states, event_rx, cl,
                   sources, path_to_source, entries, next_id, hist>>

\* watch_directory: the next entry of the listing, in no fixed order.  An
\* entry that is a file any more has its metadata read, one that is not is
\* skipped; after the last entry watch_directory returns and add_folder
\* registers the source
AddFolderScan ==
    /\ cmd.pc = "dir_scan"
    /\ IF cmd.todo = {}
       THEN /\ Register(cmd.path, "Folder", cmd.pattern)
            /\ cmd' = CmdIdle
            /\ hist' = [hist EXCEPT !.last = Last("add_folder", cmd.path, "ok"),
                                    !.pre = NoSnapshot]
       ELSE /\ \E file_path \in cmd.todo :
                 cmd' = IF file_path \in DOMAIN fs
                        THEN [cmd EXCEPT !.pc = "dir_count", !.file_path = file_path,
                                         !.todo = @ \ {file_path},
                                         !.initial_size = Len(fs[file_path])]
                        ELSE [cmd EXCEPT !.todo = @ \ {file_path}]
            /\ UNCHANGED <<sources, path_to_source, entries, next_id, hist>>
    /\ UNCHANGED <<wm, batch, out, fs, watched, notify_rx, file_states, event_rx, cl>>

\* watch_directory: count the lines of the matching file; File::open fails
\* for a file that was deleted since the metadata read, and watch_directory
\* returns the error
AddFolderCount ==
    /\ cmd.pc = "dir_count"
    /\ IF cmd.file_path \in DOMAIN fs
       THEN /\ cmd' = [cmd EXCEPT !.pc = "dir_insert",
                                  !.line_count = Len(ReaderLines(fs[cmd.file_path]))]
            /\ UNCHANGED hist
       ELSE /\ cmd' = CmdIdle
            /\ hist' = [hist EXCEPT !.last = Last("add_folder", cmd.path, "Io"),
                                    !.pre = NoSnapshot]
    /\ UNCHANGED <<wm, batch, out, fs, watched, notify_rx, file_states, event_rx, cl,
                   sources, path_to_source, entries, next_id>>

\* watch_directory: insert the FileState of the matching file, whether or not
\* the path is tracked already, and go on with the listing
AddFolderInsert ==
    /\ cmd.pc = "dir_insert"
    /\ file_states' = Put(file_states, cmd.file_path,
                          [size |-> cmd.initial_size, line_number |-> cmd.line_count])
    /\ cmd' = [cmd EXCEPT !.pc = "dir_scan"]
    /\ hist' = [hist EXCEPT !.scanned = @ \cup {cmd.file_path}]
    /\ UNCHANGED <<wm, batch, out, fs, watched, notify_rx, event_rx, cl, sources,
                   path_to_source, entries, next_id>>

\* unwatch with the backend's result taken for a success
UnwatchErrorNone(path) == "ok"

\* NotifyFileWatcher::unwatch: "ok" or the WatchError returned.  The backend
\* refuses to unwatch a path it does not watch.
UnwatchError(path) ==
    IF path \notin DOMAIN file_states THEN "NotWatching"
    ELSE IF path \notin watched THEN "WatcherError"
    ELSE "ok"

\* NotifyFileWatcher::unwatch: on an error nothing changes
Unwatch(path) ==
    IF UnwatchError(path) = "ok"
    THEN /\ watched' = watched \ {path}
         /\ file_states' = Remove(file_states, path)
    ELSE UNCHANGED <<watched, file_states>>

\* the positions in event_rx of the events the lookup resolves to source `id`
QueuedFor(id) ==
    {i \in 1..Len(event_rx) : id \in SourceIdsForPath(event_rx[i].path)}

\* RemoveSource that leaves the path of the source in path_to_source
RemoveSourceKeepPath(id) ==
    /\ cmd.pc = "idle"
    /\ id \in DOMAIN sources
    /\ sources' = Remove(sources, id)
    /\ path_to_source' = path_to_source
    /\ entries' = Remove(entries, id)
    /\ Unwatch(sources[id].path)
    /\ hist' = [hist EXCEPT !.last = Last("remove_source", sources[id].path, "ok"),
                            !.unwatch = UnwatchError(sources[id].path),
                            !.stale = @ \cup QueuedFor(id)]
    /\ UNCHANGED <<wm, batch, out, fs, notify_rx, event_rx, cl, cmd, next_id>>

\* remove_source: the unwatch error is logged and dropped
RemoveSource(id) ==
    /\ cmd.pc = "idle"
    /\ id \in DOMAIN sources
    /\ sources' = Remove(sources, id)
    /\ path_to_source' = Remove(path_to_source, sources[id].path)
    /\ entries' = Remove(entries, id)
    /\ Unwatch(sources[id].path)
    /\ hist' = [hist EXCEPT !.last = Last("remove_source", sources[id].path, "ok"),
                            !.unwatch = UnwatchError(sources[id].path),
                            !.stale = @ \cup QueuedFor(id)]
    /\ UNCHANGED <<wm, batch, out, fs, notify_rx, event_rx, cl, cmd, next_id>>

\* clear_all_sources -> unwatch_all: the tracked paths are listed
ClearBegin ==
    /\ cmd.pc = "idle"
    /\ cmd' = [CmdIdle EXCEPT !.pc = "clear", !.todo = DOMAIN file_states]
    /\ UNCHANGED <<wm, batch, out, fs, watched, notify_rx, file_states, event_rx, cl,
                   sources, path_to_source, entries, next_id, hist>>

\* ClearFinish keeping the state of the paths the backend failed to unwatch
ClearFinishKeepFailed ==
    /\ cmd.pc = "clear"
    /\ watched' = watched \ cmd.todo
    /\ file_states' = [p \in (DOMAIN file_states \cap cmd.todo) \ watched |->
                          file_states[p]]
    /\ sources' = <<>>
    /\ path_to_source' = <<>>
    /\ entries' = <<>>
    /\ cmd' = CmdIdle
    /\ hist' = [hist EXCEPT !.last = Last("clear_all_sources", "", "ok"),
                            !.unwatch = IF cmd.todo \subseteq watched
                                        THEN "ok" ELSE "WatcherError",
                            !.stale = @ \cup (1..Len(event_rx))]
    /\ UNCHANGED <<wm, batch, out, fs, notify_rx, event_rx, cl, next_id>>

\* unwatch_all: the backend unwatches each listed path, failures are logged
\* and dropped, and file_states is cleared; clear_all_sources: the registry
\* is cleared
ClearFinish ==
    /\ cmd.pc = "clear"
    /\ watched' = watched \ cmd.todo
    /\ file_states' = <<>>
    /\ sources' = <<>>
    /\ path_to_source' = <<>>
    /\ entries' = <<>>
    /\ cmd' = CmdIdle
    /\ hist' = [hist EXCEPT !.last = Last("clear_all_sources", "", "ok"),
                            !.unwatch = IF cmd.todo \subseteq watched
                                        THEN "ok" ELSE "WatcherError",
                            !.stale = @ \cup (1..Len(event_rx))]
    /\ UNCHANGED <<wm, batch, out, fs, notify_rx, event_rx, cl, next_id>>

-----------------------------------------------------------------------------
(* The consumer thread: start_event_processor and process_file_event *)

\* add_entries putting the new records in front of the ledger
AddEntriesFront(source_id, new_entries) ==
    IF source_id \in DOMAIN entries
    THEN [entries EXCEPT ![source_id] = new_entries \o @]
    ELSE entries

\* add_entries
AddEntries(source_id, new_entries) ==
    IF source_id \in DOMAIN entries
    THEN [entries EXCEPT ![source_id] = @ \o new_entries]
    ELSE entries

\* clear_entries that creates the ledger of an id that has none
ClearEntriesCreate(source_id) == Put(entries, source_id, <<>>)

\* clear_entries
ClearEntries(source_id) ==
    IF source_id \in DOMAIN entries
    THEN [entries EXCEPT ![source_id] = <<>>]
    ELSE entries

\* update_status that drops the error message
UpdateStatusNoMessage(source_id, status, error_message) ==
    IF source_id \in DOMAIN sources
    THEN [sources EXCEPT ![source_id].status = status,
                         ![source_id].error_message = ""]
    ELSE sources

\* update_status -> LogSource::set_status
UpdateStatus(source_id, status, error_message) ==
    IF source_id \in DOMAIN sources
    THEN [sources EXCEPT ![source_id].status = status,
                         ![source_id].error_message = error_message]
    ELSE sources

\* for event in rx: process_file_event(event), under the state lock
ProcessFileEvent ==
    /\ cmd.pc = "idle"
    /\ event_rx # <<>>
    /\ event_rx' = Tail(event_rx)
    /\ LET event == Head(event_rx)
           shifted == [hist EXCEPT !.stale = {i - 1 : i \in @ \ {1}}]
       IN \E source_id \in SourceIdsForPath(event.path) :
            IF source_id = NoSource \/ event.type \in {"FileCreated", "FileRenamed"}
            THEN /\ hist' = shifted
                 /\ UNCHANGED <<entries, sources>>
            ELSE CASE event.type = "ContentAppended" ->
                        /\ entries' = AddEntries(source_id,
                                         ContentEntries(event.content, event.line_number))
                        /\ hist' = shifted
                        /\ UNCHANGED sources
                   [] event.type = "FileTruncated" ->
                        /\ entries' = ClearEntries(source_id)
                        /\ hist' = [shifted EXCEPT !.after_trunc = TRUE]
                        /\ UNCHANGED sources
                   [] event.type = "FileDeleted" ->
                        /\ sources' = UpdateStatus(source_id, "Error", "File deleted")
                        /\ hist' = [shifted EXCEPT !.status_event =
                                       StatusEvent(source_id, "Error", "File deleted")]
                        /\ UNCHANGED entries
                   [] event.type = "Error" ->
                        /\ sources' = UpdateStatus(source_id, "Error", event.message)
                        /\ hist' = [shifted EXCEPT !.status_event =
                                       StatusEvent(source_id, "Error", event.message)]
                        /\ UNCHANGED entries
    /\ UNCHANGED <<wm, batch, out, fs, watched, notify_rx, file_states, cl, cmd, path_to_source,
                   next_id>>

-----------------------------------------------------------------------------
(* Commands on a source id: get_source, get_entries, clear_entries,          *)
(* update_status, read_initial_content and remove_source of state.rs.  Each  *)
(* runs with the state lock held and leaves what it returns in `out`; the    *)
(* lock is released when it returns.                                         *)

\* None, for a limit or for max_lines
NoLimit == -1

\* Iterator::rev
Reverse(s) == [i \in 1..Len(s) |-> s[Len(s) - i + 1]]

\* Iterator::take
Take(s, n) == SubSeq(s, 1, IF n < Len(s) THEN n ELSE Len(s))

\* Vec::split_off: the elements from position `at` (counted from 0) on
SplitOff(s, at) == SubSeq(s, at + 1, Len(s))

\* get_entries that takes the first `limit` records of the ledger
GetEntriesOldest(source_id, limit) ==
    IF source_id \notin DOMAIN entries THEN <<>>
    ELSE IF limit = NoLimit THEN entries[source_id]
    ELSE Take(entries[source_id], limit)

\* get_entries
GetEntries(source_id, limit) ==
    IF source_id \notin DOMAIN entries THEN <<>>
    ELSE IF limit = NoLimit THEN entries[source_id]
    ELSE Reverse(Take(Reverse(entries[source_id]), limit))

\* the command holds the lock until it returns
Returning == [CmdIdle EXCEPT !.pc = "return"]

\* get_log_entries(source_id, limit)
GetEntriesCmd(source_id, limit) ==
    /\ cmd.pc = "idle"
    /\ cmd' = Returning
    /\ out' = [OutIdle EXCEPT !.op = "get_entries", !.id = source_id,
                              !.limit = limit, !.ret = "ok",
                              !.entries = GetEntries(source_id, limit),
                              !.consumed = 1]
    /\ UNCHANGED <<wm, batch, fs, watched, notify_rx, file_states, event_rx, cl,
                   sources, path_to_source, entries, next_id, hist>>

\* get_entries called once more with the same arguments before the lock is
\* released
GetEntriesAgain ==
    /\ cmd.pc = "return"
    /\ out.op = "get_entries"
    /\ out.consumed = 1
    /\ out' = [out EXCEPT !.entries = GetEntries(out.id, out.limit),
                          !.consumed = 2]
    /\ UNCHANGED <<wm, batch, fs, watched, notify_rx, file_states, event_rx, cl, cmd,
                   sources, path_to_source, entries, next_id, hist>>

\* get_log_source(source_id): Some(source) is <<source>>, None is <<>>
GetSourceCmd(source_id) ==
    /\ cmd.pc = "idle"
    /\ cmd' = Returning
    /\ out' = [OutIdle EXCEPT
                  !.op = "get_source", !.id = source_id,
                  !.ret = IF source_id \in DOMAIN sources THEN "Some" ELSE "None",
                  !.entries = IF source_id \in DOMAIN sources
                              THEN <<sources[source_id]>> ELSE <<>>]
    /\ UNCHANGED <<wm, batch, fs, watched, notify_rx, file_states, event_rx, cl,
                   sources, path_to_source, entries, next_id, hist>>

\* clear_log_entries(source_id)
ClearEntriesCmd(source_id) ==
    /\ cmd.pc = "idle"
    /\ cmd' = Returning
    /\ entries' = ClearEntries(source_id)
    /\ out' = [OutIdle EXCEPT !.op = "clear_entries", !.id = source_id, !.ret = "ok"]
    /\ UNCHANGED <<wm, batch, fs, watched, notify_rx, file_states, event_rx, cl,
                   sources, path_to_source, next_id, hist>>

\* the statuses the frontend sets
Statuses == {"Active", "Paused"}

\* update_source_status(source_id, status): the error message is None
UpdateStatusCmd(source_id, status) ==
    /\ cmd.pc = "idle"
    /\ cmd' = Returning
    /\ sources' = UpdateStatus(source_id, status, "")
    /\ out' = [OutIdle EXCEPT
                  !.op = "update_status", !.id = source_id,
                  !.ret = IF source_id \in DOMAIN sources
                          THEN "ok" ELSE "Source not found"]
    /\ UNCHANGED <<wm, batch, fs, watched, notify_rx, file_states, event_rx, cl,
                   path_to_source, entries, next_id, hist>>

\* remove_log_source(id) for an id that is not in the registry
RemoveSourceFail(id) ==
    /\ cmd.pc = "idle"
    /\ id \notin DOMAIN sources
    /\ cmd' = Returning
    /\ out' = [OutIdle EXCEPT !.op = "remove_source", !.id = id,
                              !.ret = "Source not found"]
    /\ UNCHANGED <<wm, batch, fs, watched, notify_rx, file_states, event_rx, cl,
                   sources, path_to_source, entries, next_id, hist>>

\* ReadInitialLines keeping the first max_lines lines
ReadInitialLinesOldest(path, max_lines) ==
    LET lines == Numbered(UntilError(ReaderLines(fs[path])), 1)
    IN IF max_lines # NoLimit /\ Len(lines) > max_lines
       THEN Take(lines, max_lines)
       ELSE lines

\* NotifyFileWatcher::read_initial_content of a file that opens: its lines
\* numbered from 1, the last max_lines of them when there are more
ReadInitialLines(path, max_lines) ==
    LET lines == Numbered(UntilError(ReaderLines(fs[path])), 1)
    IN IF max_lines # NoLimit /\ Len(lines) > max_lines
       THEN SplitOff(lines, Len(lines) - max_lines)
       ELSE lines

\* the paths of the model in the order of Vec<PathBuf>::sort
SortedPaths == <<N, G, H, Z, E, F>>

\* matching_files.last() after the sort
LatestFile(files) ==
    CHOOSE p \in files :
        \A q \in files :
            \E i, j \in 1..Len(SortedPaths) :
                SortedPaths[i] = q /\ SortedPaths[j] = p /\ i <= j

\* the file read_initial_content reads for a source, "" for none: the path
\* of a File source, the last matching file of a Folder source
InitialFile(source) ==
    IF source.source_type = "Folder"
    THEN IF Matching(source.path, source.pattern) = {} THEN ""
         ELSE LatestFile(Matching(source.path, source.pattern))
    ELSE source.path

\* read_initial_content(source_id, max_lines) of state.rs
ReadInitialContentCmd(source_id, max_lines) ==
    /\ cmd.pc = "idle"
    /\ cmd' = Returning
    /\ IF source_id \notin DOMAIN sources
       THEN /\ out' = [OutIdle EXCEPT !.op = "read_initial_content",
                                      !.id = source_id, !.limit = max_lines,
                                      !.ret = "Source not found"]
            /\ UNCHANGED <<entries, hist>>
       ELSE LET file == InitialFile(sources[source_id])
            IN /\ hist.reads < MaxReads
               /\ hist' = [hist EXCEPT !.reads = @ + 1]
               /\ IF file = ""
                  THEN /\ out' = [OutIdle EXCEPT !.op = "read_initial_content",
                                                 !.id = source_id,
                                                 !.limit = max_lines, !.ret = "ok"]
                       /\ UNCHANGED entries
                  ELSE IF file \notin DOMAIN fs
                  THEN /\ out' = [OutIdle EXCEPT !.op = "read_initial_content",
                                                 !.id = source_id,
                                                 !.limit = max_lines,
                                                 !.ret = "Failed to read file"]
                       /\ UNCHANGED entries
                  ELSE LET parsed == ParseLinesMultiline(
                                         ReadInitialLines(file, max_lines))
                       IN /\ out' = [OutIdle EXCEPT
                                        !.op = "read_initial_content",
                                        !.id = source_id, !.limit = max_lines,
                                        !.arg = file, !.ret = "ok",
                                        !.entries = parsed]
                          /\ entries' = [entries EXCEPT ![source_id] = @ \o parsed]
    /\ UNCHANGED <<wm, batch, fs, watched, notify_rx, file_states, event_rx, cl,
                   sources, path_to_source, next_id>>

\* the command returns and the lock is released
Return ==
    /\ cmd.pc = "return"
    /\ cmd' = CmdIdle
    /\ out' = OutIdle
    /\ UNCHANGED <<wm, batch, fs, watched, notify_rx, file_states, event_rx, cl,
                   sources, path_to_source, entries, next_id, hist>>

-----------------------------------------------------------------------------
(* The window manager *)

\* the largest window index
MaxIndex == 9

\* the label create_log_window gives the window of a source
Label(source_id) == <<"log-", source_id>>

\* a WindowInfo; title and focus play no part in the index maps
WindowInfo(label, source_id, window_index) ==
    [label |-> label, source_id |-> source_id, window_index |-> window_index]

\* WindowManagerState::new
WmInit == [windows |-> <<>>, index_to_label |-> <<>>]

\* get_next_index: the first unused index of 1..=9, 0 for None
GetNextIndex(w) ==
    IF \A i \in 1..MaxIndex : i \in DOMAIN w.index_to_label THEN 0
    ELSE CHOOSE i \in 1..MaxIndex :
             /\ i \notin DOMAIN w.index_to_label
             /\ \A j \in 1..(i - 1) : j \in DOMAIN w.index_to_label

RegisterWindow(w, info) ==
    [windows |-> Put(w.windows, info.label, info),
     index_to_label |-> Put(w.index_to_label, info.window_index, info.label)]

\* unregister_window leaving the index of the window mapped
UnregisterWindowKeepIndex(w, label) ==
    IF label \in DOMAIN w.windows
    THEN [windows |-> Remove(w.windows, label),
          index_to_label |-> w.index_to_label]
    ELSE w

UnregisterWindow(w, label) ==
    IF label \in DOMAIN w.windows
    THEN [windows |-> Remove(w.windows, label),
          index_to_label |-> Remove(w.index_to_label,
                                    w.windows[label].window_index)]
    ELSE w

\* the windows showing a source
WindowsForSource(w, source_id) ==
    {label \in DOMAIN w.windows : w.windows[label].source_id = source_id}

IndexInUse == "Index already in use"
WindowNotFound == "Window not found"

\* update_index leaving the old index of the window mapped
UpdateIndexKeepOld(w, label, new_index) ==
    IF /\ new_index \in DOMAIN w.index_to_label
       /\ w.index_to_label[new_index] # label
    THEN [ret |-> IndexInUse, wm |-> w]
    ELSE IF label \notin DOMAIN w.windows
    THEN [ret |-> WindowNotFound, wm |-> w]
    ELSE [ret |-> "ok",
          wm |-> [windows |-> [w.windows EXCEPT ![label].window_index = new_index],
                  index_to_label |-> Put(w.index_to_label, new_index, label)]]

\* update_index: its result and the state it leaves
UpdateIndex(w, label, new_index) ==
    IF /\ new_index \in DOMAIN w.index_to_label
       /\ w.index_to_label[new_index] # label
    THEN [ret |-> IndexInUse, wm |-> w]
    ELSE IF label \notin DOMAIN w.windows
    THEN [ret |-> WindowNotFound, wm |-> w]
    ELSE [ret |-> "ok",
          wm |-> [windows |-> [w.windows EXCEPT ![label].window_index = new_index],
                  index_to_label |->
                      Put(Remove(w.index_to_label, w.windows[label].window_index),
                          new_index, label)]]

\* the result of a window command
WindowOut(op, label, new_index, ret) ==
    [op |-> op, label |-> label, new_index |-> new_index, ret |-> ret]

\* create_log_window(source_id, title); `built` tells whether the webview
\* window could be built
CreateLogWindow(source_id, built) ==
    LET label == Label(source_id)
        window_index == GetNextIndex(wm)
    IN /\ IF WindowsForSource(wm, source_id) # {}
          THEN /\ wm' = wm
               /\ out' = WindowOut("create_log_window", label, 0, "existing")
          ELSE IF window_index = 0
          THEN /\ wm' = wm
               /\ out' = WindowOut("create_log_window", label, 0,
                                   "Maximum number of windows reached (9)")
          ELSE IF ~built
          THEN /\ wm' = wm
               /\ out' = WindowOut("create_log_window", label, 0,
                                   "Failed to create window")
          ELSE /\ wm' = RegisterWindow(wm, WindowInfo(label, source_id,
                                                      window_index))
               /\ out' = WindowOut("create_log_window", label, window_index, "ok")
       /\ UNCHANGED engine_vars
       /\ UNCHANGED batch

\* the CloseRequested handler of a window, and close_log_window
CloseWindow(label) ==
    /\ label \in DOMAIN wm.windows
    /\ wm' = UnregisterWindow(wm, label)
    /\ out' = WindowOut("close", label, 0, "ok")
    /\ UNCHANGED engine_vars
    /\ UNCHANGED batch

\* set_window_index(window_label, new_index)
SetWindowIndex(label, new_index) ==
    /\ IF new_index = 0 \/ new_index > MaxIndex
       THEN /\ wm' = wm
            /\ out' = WindowOut("set_window_index", label, new_index,
                                "Index must be between 1 and 9")
       ELSE LET updated == UpdateIndex(wm, label, new_index)
            IN /\ wm' = updated.wm
               /\ out' = WindowOut("set_window_index", label, new_index,
                                   updated.ret)
    /\ UNCHANGED engine_vars
    /\ UNCHANGED batch

-----------------------------------------------------------------------------
(* Specifications *)

\* the lines a writer appends: a blank line or a line of text
WriteLines == {<<>>, <<"a">>}

HistInit == [writes |-> 0, truncs |-> 0, watch_n |-> 0, after_trunc |-> FALSE,
             late |-> FALSE, last |-> Last("none", "", "none"), unwatch |-> "none",
             pre |-> NoSnapshot,
             scanned |-> {}, stale |-> {}, status_event |-> NoStatusEvent,
             reads |-> 0, after_status |-> FALSE]

EngineInit(files) ==
    /\ fs = files
    /\ watched = {}
    /\ notify_rx = <<>>
    /\ file_states = <<>>
    /\ event_rx = <<>>
    /\ cl = ClIdle
    /\ cmd = CmdIdle
    /\ sources = <<>>
    /\ path_to_source = <<>>
    /\ entries = <<>>
    /\ next_id = 1
    /\ hist = HistInit

(* One file source: the file F exists, empty or holding one line, and is    *)
(* added with add_file while writers append to it and truncate it.          *)
Init ==
    \E line \in WriteLines :
        \E bytes \in {<<>>, line \o <<NL>>} :
            EngineInit([p \in {F} |-> bytes]) /\ batch = <<>> /\ out = OutIdle /\ wm = WmInit

FileAppend == \E line \in WriteLines : AppendLine(F, line)

FileTruncate == Truncate(F)

AddFile == AddFileBegin(F)

Next ==
    \/ FileAppend
    \/ FileTruncate
    \/ AddFile
    \/ AddFileCount
    \/ AddFileWatch
    \/ AddFileInsert
    \/ ClReceive
    \/ ClLock
    \/ ClTruncate
    \/ ClRead
    \/ ClUpdate
    \/ ProcessFileEvent

Spec == Init /\ [][Next]_vars

(* One folder: the directory D is added with add_folder; the file G is     *)
(* created in it by a writer, before or after; G can also be added as a file *)
(* source of its own, and sources can be removed.                           *)
InitFolder == EngineInit(<<>>) /\ batch = <<>> /\ out = OutIdle /\ wm = WmInit

FolderCreate == CreateFile(G)

FolderAppend == \E line \in WriteLines : AppendLine(G, line)

FolderTruncate == Truncate(G)

AddFolder == AddFolderBegin(D, LogGlob)

AddFolderFile == AddFileBegin(G)

Remove1 == \E id \in DOMAIN sources : RemoveSource(id)

NextFolder ==
    \/ FolderCreate
    \/ FolderAppend
    \/ FolderTruncate
    \/ AddFolder
    \/ AddFolderList
    \/ AddFolderScan
    \/ AddFolderCount
    \/ AddFolderInsert
    \/ AddFolderFile
    \/ AddFileCount
    \/ AddFileWatch
    \/ AddFileInsert
    \/ Remove1
    \/ ClReceive
    \/ ClLock
    \/ ClTruncate
    \/ ClRead
    \/ ClUpdate
    \/ ProcessFileEvent

SpecFolder == InitFolder /\ [][NextFolder]_vars

(* The parser on its own: a batch of lines is drawn, and one of the parsing *)
(* operations is applied to it.                                             *)

\* one line of each kind the parser tells apart: a record start, a frame, an
\* indented at/in/thrown line, a marker, an empty line, a line of white
\* space, plain text
BatchLines == {<<"L">>, <<"#">>, <<" ", "@">>, <<"S">>, <<>>, <<" ">>, <<"x">>}

Batches == UNION {[1..n -> BatchLines] : n \in 1..MaxBatch}

InitParse == EngineInit(<<>>) /\ batch \in Batches /\ out = OutIdle /\ wm = WmInit

\* parser.parse_multiline(batch, 1)
ApplyParseMultiline ==
    /\ out.op = "none"
    /\ LET r == ParseMultiline(batch, 1)
       IN out' = [OutIdle EXCEPT
                     !.op = "parse_multiline",
                     !.entries = IF r.consumed > 0 THEN <<r.entry>> ELSE <<>>,
                     !.consumed = r.consumed]
    /\ UNCHANGED <<wm, batch, fs, watched, notify_rx, file_states, event_rx, cl, cmd,
                   sources, path_to_source, entries, next_id, hist>>

\* parse_lines_multiline over the batch, numbered from 1
ApplyParseLinesMultiline ==
    /\ out.op = "none"
    /\ out' = [OutIdle EXCEPT
                  !.op = "parse_lines_multiline",
                  !.entries = ParseLinesMultiline(Numbered(batch, 1)),
                  !.consumed = Len(batch)]
    /\ UNCHANGED <<wm, batch, fs, watched, notify_rx, file_states, event_rx, cl, cmd,
                   sources, path_to_source, entries, next_id, hist>>

\* the batch appended to an empty file: the classifier builds the content,
\* process_file_event builds the entries
ApplyContentAppended ==
    /\ out.op = "none"
    /\ out' = [OutIdle EXCEPT
                  !.op = "content_appended",
                  !.entries = ContentEntries(NewContent(batch), Len(batch)),
                  !.consumed = Len(batch)]
    /\ UNCHANGED <<wm, batch, fs, watched, notify_rx, file_states, event_rx, cl, cmd,
                   sources, path_to_source, entries, next_id, hist>>

\* parse_line(batch[1], n) for a line number n
ApplyParseLine ==
    /\ out.op = "none"
    /\ \E n \in 1..MaxBatch :
          out' = [OutIdle EXCEPT
                     !.op = "parse_line",
                     !.entries = <<ParseLine(batch[1], n)>>,
                     !.consumed = n]
    /\ UNCHANGED <<wm, batch, fs, watched, notify_rx, file_states, event_rx, cl, cmd,
                   sources, path_to_source, entries, next_id, hist>>

NextParse ==
    \/ ApplyParseLine
    \/ ApplyParseMultiline
    \/ ApplyParseLinesMultiline
    \/ ApplyContentAppended

SpecParse == InitParse /\ [][NextParse]_vars

(* The registry: the files G and H exist in the directory D; files and     *)
(* folders are added under paths that exist, that do not exist, and that    *)
(* are of the other kind; sources are removed one by one or all at once;    *)
(* writers delete files meanwhile.                                          *)
InitRegistry == EngineInit([p \in {G, H} |-> <<>>]) /\ batch = <<>> /\ out = OutIdle /\ wm = WmInit

RegistryDelete == \E path \in {G, H} : DeleteFile(path)

RegistryAddFile == \E path \in {"", F, G, D} : AddFileBegin(path) \/ AddFileFail(path)

RegistryAddFolder ==
    \E dir \in {F, G, D} : \E pattern \in {LogGlob, BadGlob} :
        AddFolderBegin(dir, pattern) \/ AddFolderFail(dir, pattern)

\* get_source_id_for_path(path), under the state lock
Lookup ==
    /\ cmd.pc = "idle"
    /\ out.op = "none"
    /\ \E path \in Files : \E source_id \in SourceIdsForPath(path) :
          out' = [OutIdle EXCEPT
                     !.op = "get_source_id_for_path",
                     !.arg = path,
                     !.consumed = source_id]
    /\ UNCHANGED <<wm, batch, fs, watched, notify_rx, file_states, event_rx, cl, cmd,
                   sources, path_to_source, entries, next_id, hist>>

NextRegistry ==
    \/ RegistryDelete
    \/ RegistryAddFile
    \/ AddFileCount
    \/ AddFileWatch
    \/ AddFileInsert
    \/ RegistryAddFolder
    \/ AddFolderList
    \/ AddFolderScan
    \/ AddFolderCount
    \/ AddFolderInsert
    \/ Remove1
    \/ ClearBegin
    \/ ClearFinish
    \/ ClReceive
    \/ ProcessFileEvent

SpecRegistry == InitRegistry /\ [][NextRegistry]_vars

(* The lookup of the source of a path, in every state of the registry that  *)
(* adding and removing sources leads to.                                    *)
NextLookup ==
    \/ RegistryAddFile
    \/ AddFileCount
    \/ AddFileWatch
    \/ AddFileInsert
    \/ RegistryAddFolder
    \/ AddFolderList
    \/ AddFolderScan
    \/ AddFolderCount
    \/ AddFolderInsert
    \/ Remove1
    \/ Lookup

SpecLookup == InitRegistry /\ [][NextLookup]_vars

(* Commands on source ids: the files F and H hold the same text of up to    *)
(* MaxFileLines lines and G holds one line; F is added as a file and D as a *)
(* folder; the commands are called with the ids of sources that exist, that *)
(* were removed and that never existed.                                     *)

\* the texts of the files: up to MaxFileLines lines, each a line of text or
\* a record start
QueryLines == {<<"a">>, <<"L">>}

RECURSIVE JoinLines(_)
JoinLines(lines) ==
    IF lines = <<>> THEN <<>>
    ELSE Head(lines) \o <<NL>> \o JoinLines(Tail(lines))

QueryTexts ==
    {JoinLines(lines) : lines \in UNION {[1..n -> QueryLines] : n \in 0..MaxFileLines}}

InitQuery ==
    /\ \E text \in QueryTexts :
          EngineInit([p \in {F, G, H} |-> IF p = G THEN <<"x", NL>> ELSE text])
    /\ batch = <<>>
    /\ out = OutIdle /\ wm = WmInit

\* every id a source can have, and one that no source ever has
Ids == 1..(MaxSources + 1)

Limits == {NoLimit} \cup 0..MaxLimit

QueryAddFile == AddFileBegin(F)

QueryAddFolder == AddFolderBegin(D, LogGlob)

QueryRemove == \E id \in Ids : RemoveSource(id) \/ RemoveSourceFail(id)

QueryGetSource == \E id \in Ids : GetSourceCmd(id)

QueryGetEntries == \E id \in Ids : \E limit \in Limits : GetEntriesCmd(id, limit)

QueryClearEntries == \E id \in Ids : ClearEntriesCmd(id)

QueryUpdateStatus == \E id \in Ids : \E status \in Statuses : UpdateStatusCmd(id, status)

QueryReadInitialContent ==
    \E id \in Ids : \E max_lines \in Limits : ReadInitialContentCmd(id, max_lines)

NextQuery ==
    \/ QueryAddFile
    \/ AddFileCount
    \/ AddFileWatch
    \/ AddFileInsert
    \/ QueryAddFolder
    \/ AddFolderList
    \/ AddFolderScan
    \/ AddFolderCount
    \/ AddFolderInsert
    \/ QueryRemove
    \/ QueryGetSource
    \/ QueryGetEntries
    \/ GetEntriesAgain
    \/ QueryClearEntries
    \/ QueryUpdateStatus
    \/ QueryReadInitialContent
    \/ Return

SpecQuery == InitQuery /\ [][NextQuery]_vars

(* The ledger of one file source: the file F holds one line and is added    *)
(* with add_file; writers append to it and truncate it, and the commands    *)
(* that read the file, clear the ledger and set the status are called in    *)
(* between.                                                                 *)
InitLedger == EngineInit([p \in {F} |-> <<"a", NL>>]) /\ batch = <<>> /\ out = OutIdle /\ wm = WmInit

LedgerAppend == AppendLine(F, <<"a">>)

LedgerClearEntries == \E id \in DOMAIN sources : ClearEntriesCmd(id)

LedgerUpdateStatus == \E id \in DOMAIN sources : UpdateStatusCmd(id, "Paused")

LedgerReadInitialContent == \E id \in DOMAIN sources : ReadInitialContentCmd(id, NoLimit)

NextLedger ==
    \/ LedgerAppend
    \/ FileTruncate
    \/ AddFile
    \/ AddFileCount
    \/ AddFileWatch
    \/ AddFileInsert
    \/ LedgerClearEntries
    \/ LedgerUpdateStatus
    \/ LedgerReadInitialContent
    \/ Return
    \/ ClReceive
    \/ ClLock
    \/ ClTruncate
    \/ ClRead
    \/ ClUpdate
    \/ ProcessFileEvent

SpecLedger == InitLedger /\ [][NextLedger]_vars

(* The pipeline: the empty files F and G have been added as the file        *)
(* sources 1 and 2 (the state add_file(F) and add_file(G) lead to);         *)
(* writers append lines of text and lines that are not valid UTF-8, and     *)
(* delete F; the classifier thread and the consumer thread run.             *)
InitPipeline ==
    /\ fs = [p \in {F, G} |-> <<>>]
    /\ watched = {F, G}
    /\ notify_rx = <<>>
    /\ file_states = [p \in {F, G} |-> [size |-> 0, line_number |-> 0]]
    /\ event_rx = <<>>
    /\ cl = ClIdle
    /\ cmd = CmdIdle
    /\ sources = <<NewSource(F, "File", ""), NewSource(G, "File", "")>>
    /\ path_to_source = [p \in {F, G} |-> IF p = F THEN 1 ELSE 2]
    /\ entries = <<<<>>, <<>>>>
    /\ next_id = 3
    /\ hist = [HistInit EXCEPT !.last = Last("add_file", G, "ok")]
    /\ batch = <<>>
    /\ out = OutIdle /\ wm = WmInit

PipelineAppend == \E path \in {F, G} : \E line \in {<<"a">>, <<"?">>} : AppendLine(path, line)

PipelineDelete == DeleteFile(F)

NextPipeline ==
    \/ PipelineAppend
    \/ PipelineDelete
    \/ ClReceive
    \/ ClLock
    \/ ClRead
    \/ ClUpdate
    \/ ProcessFileEvent

SpecPipeline == InitPipeline /\ [][NextPipeline]_vars

\* the threads keep running: the classifier thread and the consumer thread
\* take their next step
PipelineFairness ==
    /\ WF_vars(ClReceive)
    /\ WF_vars(ClLock)
    /\ WF_vars(ClRead)
    /\ WF_vars(ClUpdate)
    /\ WF_vars(ProcessFileEvent)

SpecPipelineFair == SpecPipeline /\ PipelineFairness

-----------------------------------------------------------------------------
(* Creations and renames: the directory D has been added as the folder      *)
(* source 1 while it held x.log with two lines (the state add_folder leads  *)
(* to); writers create y.log, rename one of the two files to the free name, *)
(* append to them and truncate x.log.                                       *)
InitRename ==
    /\ fs = [p \in {G} |-> <<"a", NL, "a", NL>>]
    /\ watched = {D}
    /\ notify_rx = <<>>
    /\ file_states = [p \in {G} |-> [size |-> 4, line_number |-> 2]]
    /\ event_rx = <<>>
    /\ cl = ClIdle
    /\ cmd = CmdIdle
    /\ sources = <<NewSource(D, "Folder", LogGlob)>>
    /\ path_to_source = [p \in {D} |-> 1]
    /\ entries = <<<<>>>>
    /\ next_id = 2
    /\ hist = [HistInit EXCEPT !.last = Last("add_folder", D, "ok")]
    /\ batch = <<>>
    /\ out = OutIdle /\ wm = WmInit

RenameCreate == \E path \in {G, H} : CreateFile(path)

RenameMove == \E from, to \in {G, H} : RenameFile(from, to)

RenameAppend == \E path \in {G, H} : AppendLine(path, <<"a">>)

RenameTruncate == Truncate(G)

NextRename ==
    \/ RenameCreate
    \/ RenameMove
    \/ RenameAppend
    \/ RenameTruncate
    \/ ClReceive
    \/ ClLock
    \/ ClTruncate
    \/ ClRead
    \/ ClUpdate
    \/ ProcessFileEvent

SpecRename == InitRename /\ [][NextRename]_vars

-----------------------------------------------------------------------------
(* Partial writes: the empty file F has been added as the file source 1     *)
(* (the state add_file(F) leads to); writers append the start of a line,    *)
(* the rest of a line with its terminator, or a whole line.                 *)
InitPartial ==
    /\ fs = [p \in {F} |-> <<>>]
    /\ watched = {F}
    /\ notify_rx = <<>>
    /\ file_states = [p \in {F} |-> [size |-> 0, line_number |-> 0]]
    /\ event_rx = <<>>
    /\ cl = ClIdle
    /\ cmd = CmdIdle
    /\ sources = <<NewSource(F, "File", "")>>
    /\ path_to_source = [p \in {F} |-> 1]
    /\ entries = <<<<>>>>
    /\ next_id = 2
    /\ hist = [HistInit EXCEPT !.last = Last("add_file", F, "ok")]
    /\ batch = <<>>
    /\ out = OutIdle /\ wm = WmInit

\* what one write appends
PartialWrites == {<<"b">>, <<"c", NL>>, <<"a", NL>>}

PartialWrite == \E bytes \in PartialWrites : AppendBytes(F, bytes)

NextPartial ==
    \/ PartialWrite
    \/ ClReceive
    \/ ClLock
    \/ ClRead
    \/ ClUpdate
    \/ ProcessFileEvent

SpecPartial == InitPartial /\ [][NextPartial]_vars

-----------------------------------------------------------------------------
(* Truncations: the file F, holding one line, has been added as the file    *)
(* source 1 (the state add_file(F) leads to); writers append lines to it    *)
(* and truncate it.                                                         *)
InitTruncation ==
    /\ fs = [p \in {F} |-> <<"a", NL>>]
    /\ watched = {F}
    /\ notify_rx = <<>>
    /\ file_states = [p \in {F} |-> [size |-> 2, line_number |-> 1]]
    /\ event_rx = <<>>
    /\ cl = ClIdle
    /\ cmd = CmdIdle
    /\ sources = <<NewSource(F, "File", "")>>
    /\ path_to_source = [p \in {F} |-> 1]
    /\ entries = <<<<>>>>
    /\ next_id = 2
    /\ hist = [HistInit EXCEPT !.last = Last("add_file", F, "ok"), !.watch_n = 1]
    /\ batch = <<>>
    /\ out = OutIdle /\ wm = WmInit

TruncationAppend == AppendLine(F, <<"a">>)

TruncationTruncate == Truncate(F)

NextTruncation ==
    \/ TruncationAppend
    \/ TruncationTruncate
    \/ ClReceive
    \/ ClLock
    \/ ClTruncate
    \/ ClRead
    \/ ClUpdate
    \/ ProcessFileEvent

SpecTruncation == InitTruncation /\ [][NextTruncation]_vars

-----------------------------------------------------------------------------
(* The three kinds of thread together: the file F is added with add_file    *)
(* and removed by command threads while a writer appends to it, the         *)
(* classifier thread classifies and the consumer thread processes.          *)
InitThreads == EngineInit([p \in {F} |-> <<>>]) /\ batch = <<>> /\ out = OutIdle /\ wm = WmInit

\* the writer of this scenario appends at most MaxThreadWrites lines
ThreadsAppend == hist.writes < MaxThreadWrites /\ AppendLine(F, <<"a">>)

ThreadsAddFile == AddFileBegin(F)

ThreadsRemove == \E id \in DOMAIN sources : RemoveSource(id)

\* the step a command that holds the application state lock takes next
CommandStep ==
    \/ AddFileCount
    \/ AddFileWatch
    \/ AddFileInsert

\* the step the classifier thread takes next within a notification
ClassifierStep ==
    \/ ClLock
    \/ ClTruncate
    \/ ClRead
    \/ ClUpdate

NextThreads ==
    \/ ThreadsAppend
    \/ ThreadsAddFile
    \/ ThreadsRemove
    \/ CommandStep
    \/ ClReceive
    \/ ClassifierStep
    \/ ProcessFileEvent

SpecThreads == InitThreads /\ [][NextThreads]_vars

\* every thread that can take a step takes it in the end
ThreadsFairness ==
    /\ WF_vars(CommandStep)
    /\ WF_vars(ClReceive)
    /\ WF_vars(ClassifierStep)
    /\ WF_vars(ProcessFileEvent)

SpecThreadsFair == SpecThreads /\ ThreadsFairness

-----------------------------------------------------------------------------
(* The window manager: windows are created for the sources 1..MaxWindows,   *)
(* closed, and given new indexes.                                           *)

WindowSources == 1..MaxWindows

InitWindows == EngineInit(<<>>) /\ batch = <<>> /\ out = OutIdle /\ wm = WmInit

WindowCreate ==
    \E source_id \in WindowSources : \E built \in BOOLEAN :
        CreateLogWindow(source_id, built)

WindowClose == \E source_id \in WindowSources : CloseWindow(Label(source_id))

WindowSetIndex ==
    \E source_id \in WindowSources : \E new_index \in 0..(MaxIndex + 1) :
        SetWindowIndex(Label(source_id), new_index)

NextWindows ==
    \/ WindowCreate
    \/ WindowClose
    \/ WindowSetIndex

SpecWindows == InitWindows /\ [][NextWindows]_vars

-----------------------------------------------------------------------------
(* Properties of the file source scenario *)

\* the ledger of the source registered for `path`
Ledger(path) ==
    IF path \in DOMAIN path_to_source /\ path_to_source[path] \in DOMAIN entries
    THEN entries[path_to_source[path]]
    ELSE <<>>

LineNumbers(ledger) == [i \in 1..Len(ledger) |-> ledger[i].line_number]

\* the lines of an existing file
FileLines(path) == IF path \in DOMAIN fs THEN ReaderLines(fs[path]) ELSE <<>>

NoBlankLine(path) == \A i \in 1..Len(FileLines(path)) : FileLines(path)[i] # <<>>

(* C1: for a file watched when it held N lines and only appended to since,  *)
(* the line numbers assigned across the ContentAppended batches are the run *)
(* N+1, N+2, ... with no gap and no repeat.  Stated for files without blank *)
(* lines, so that the run does not depend on how blank lines are counted.   *)
C1_ContiguousRun ==
    (hist.truncs = 0 /\ NoBlankLine(F)) =>
        LineNumbers(Ledger(F)) =
            [i \in 1..Len(Ledger(F)) |-> hist.watch_n + i]

\* the step of the classifier thread that leaves position `pc`
ClStep(pc) == cl.pc = pc /\ cl' # cl

\* the path the classifier handles is tracked with the size it has read
TrackedAsRead ==
    /\ cl.path \in DOMAIN file_states
    /\ file_states[cl.path].size = cl.previous_size

(* C2: an append classified with stored size S and observed size C emits    *)
(* exactly the lines held in bytes [S, C) of the file, also when a writer   *)
(* appends between the size check and the read.                             *)
C2_ExactRange ==
    [][(ClStep("read") /\ TrackedAsRead /\ cl.path \in DOMAIN fs) =>
          LET lines == ReaderLines(BytesBetween(fs[cl.path], cl.previous_size,
                                                cl.current_size))
          IN event_rx' = IF NewContent(lines) # <<>>
                         THEN Append(event_rx,
                                     Event("ContentAppended", cl.path, NewContent(lines),
                                           cl.line_number + Len(lines)))
                         ELSE event_rx]_vars

(* C3: with stored size S and observed size C, C = S emits nothing and      *)
(* changes no state; C < S emits exactly one FileTruncated, resets size and *)
(* line_number to 0 and reads nothing; C > S is the append transition,      *)
(* which ends with the stored size C.                                       *)
C3_Trichotomy ==
    [][/\ (ClStep("lock") /\ cl.path \in DOMAIN file_states) =>
            LET S == file_states[cl.path].size
                C == cl.current_size
            IN /\ event_rx' = event_rx
               /\ file_states' = file_states
               /\ (C = S) => cl' = ClIdle
               /\ (C < S) => cl'.pc = "truncate"
               /\ (C > S) => cl'.pc = "read" /\ cl'.previous_size = S
       /\ ClStep("truncate") =>
            /\ cl' = ClIdle
            /\ event_rx' = Append(event_rx, Event("FileTruncated", cl.path, <<>>, 0))
            /\ cl.path \in DOMAIN file_states =>
                  file_states'[cl.path] = [size |-> 0, line_number |-> 0]
       /\ ClStep("read") => file_states' = file_states /\ cl'.pc \in {"update", "idle"}
       /\ (ClStep("update") /\ cl.path \in DOMAIN file_states) =>
            /\ cl' = ClIdle
            /\ event_rx' = event_rx
            /\ file_states'[cl.path].size = cl.current_size]_vars

\* a truncation was classified: FileTruncated is queued and the state is reset
C3_Witness ==
    /\ cl.pc = "idle"
    /\ F \in DOMAIN file_states
    /\ file_states[F] = [size |-> 0, line_number |-> 0]
    /\ \E i \in 1..Len(event_rx) : event_rx[i].type = "FileTruncated"
    /\ hist.truncs = 1

(* C4: after a FileTruncated the first line emitted by the next             *)
(* ContentAppended is numbered 1.  Stated for a file whose first line is    *)
(* not blank, so that the first line read is the first line emitted.        *)
C4_RestartAtOne ==
    (/\ hist.after_trunc
     /\ Ledger(F) # <<>>
     /\ FileLines(F) # <<>>
     /\ FileLines(F)[1] # <<>>) =>
        Ledger(F)[1].line_number = 1

(* C6: every record produced from a ContentAppended event carries the       *)
(* 1-based position of its line in the file, also when the batch begins or  *)
(* ends with blank lines.  Stated for a file that is only appended to.      *)
C6_LineNumberIsPosition ==
    hist.truncs = 0 =>
        \A i \in 1..Len(Ledger(F)) :
            /\ Ledger(F)[i].line_number \in 1..Len(FileLines(F))
            /\ FileLines(F)[Ledger(F)[i].line_number] = Ledger(F)[i].raw

-----------------------------------------------------------------------------
(* Properties of the folder scenario *)

(* C5: for a path that stays tracked, the stored size decreases only in the *)
(* truncation transition, which sets size and line_number to 0 together,    *)
(* whichever operation writes the state.                                    *)
C5_SizeNeverDecreases ==
    [][\A p \in DOMAIN file_states \cap DOMAIN file_states' :
          file_states'[p].size < file_states[p].size =>
              /\ ClStep("truncate")
              /\ file_states'[p] = [size |-> 0, line_number |-> 0]]_vars

(* C7: for a file that appears in a watched folder after watch_directory    *)
(* and is only appended to, no line reaches the folder's ledger twice: the  *)
(* ledger never holds more records than the file holds lines.               *)
C7_NoRedelivery ==
    (hist.late /\ hist.truncs = 0) => Len(Ledger(D)) <= Len(FileLines(G))

-----------------------------------------------------------------------------
(* Properties of the parser *)

(* C8: the records built from a freshly appended batch are those            *)
(* parse_lines_multiline builds from the same lines with the same numbers:  *)
(* continuation lines are attached to their record, not emitted.            *)
C8_AppendedBatchIsMultiline ==
    out.op = "content_appended" =>
        LET lines == ContentLines(NewContent(batch))
        IN out.entries =
               ParseLinesMultiline(Numbered(lines, Len(batch) - Len(lines) + 1))

\* the batch is [start, c1 .. ck, start', ...]: k lines that are neither
\* blank nor record starts between two record starts
StartThenContinuations(k) ==
    /\ Len(batch) >= k + 2
    /\ CanParse(batch[1])
    /\ \A i \in 2..(k + 1) : ~TrimIsEmpty(batch[i]) /\ ~CanParse(batch[i])
    /\ CanParse(batch[k + 2])

(* C9: on [start, c1 .. ck, start', ...] parse_multiline returns            *)
(* consumed = k + 1 and the stack trace c1 .. ck in order; start' is not    *)
(* consumed.                                                                *)
C9_ConsumesContinuations ==
    out.op = "parse_multiline" =>
        \A k \in 0..(Len(batch) - 2) :
            StartThenContinuations(k) =>
                /\ out.consumed = k + 1
                /\ out.entries[1].stack_trace = SubSeq(batch, 2, k + 1)
                /\ out.entries[1].raw = batch[1]

\* the example of the test: a record start, two frames, the next record start
C9_Witness ==
    /\ out.op = "parse_multiline"
    /\ batch = <<<<"L">>, <<"#">>, <<"#">>, <<"L">>>>
    /\ out.consumed = Len(batch) - 1
    /\ Len(out.entries[1].stack_trace) = Len(batch) - 2

(* C10: with no continuation collected yet, a next line that is not blank   *)
(* and not a recognised continuation (frame, indented at/in/thrown, marker) *)
(* is left unconsumed: consumed = 1.                                        *)
C10_StopsAtPlainLine ==
    (/\ out.op = "parse_multiline"
     /\ Len(batch) >= 2
     /\ CanParse(batch[1])
     /\ ~TrimIsEmpty(batch[2])
     /\ ~IsStackTraceLine(batch[2])) =>
        out.consumed = 1

\* the blank lines among the lines parse_multiline consumed after the first
BlankConsumed ==
    {i \in 2..out.consumed : TrimIsEmpty(batch[i])}

(* C11: for one record, parse_multiline consumes at most one blank line,    *)
(* and only after a continuation line was collected; a blank line directly  *)
(* after the record start is not consumed.                                  *)
C11_AtMostOneBlank ==
    (out.op = "parse_multiline" /\ out.consumed > 0) =>
        /\ Cardinality(BlankConsumed) <= 1
        /\ \A i \in BlankConsumed : i > 2
        /\ (Len(batch) >= 2 /\ TrimIsEmpty(batch[2])) => out.consumed = 1


\* the lines the records account for, in order: each record's first line
\* and then its continuation lines
RECURSIVE LinesOf(_)
LinesOf(records) ==
    IF records = <<>> THEN <<>>
    ELSE <<Head(records).raw>> \o Head(records).stack_trace \o LinesOf(Tail(records))

\* the number of lines the loop of parse_lines_multiline advances by at
\* position i of the batch
Advance(i) ==
    LET remaining == SubSeq(batch, i, Len(batch))
        multi == ParseMultiline(remaining, i)
    IN IF CanParse(remaining[1]) /\ multi.consumed > 0 THEN multi.consumed ELSE 1

(* C12: parse_lines_multiline ends on every batch and accounts for every    *)
(* line once, as the first line of a record or as one of its continuation   *)
(* lines; at every position the cursor advances by at least one line and    *)
(* not beyond the batch, by one line where no parser claims the position.   *)
C12_EveryLineOnce ==
    out.op = "parse_lines_multiline" =>
        /\ LinesOf(out.entries) = batch
        /\ \A i \in 1..Len(batch) :
              /\ Advance(i) \in 1..(Len(batch) - i + 1)
              /\ ~CanParse(batch[i]) => Advance(i) = 1
        /\ \A j \in 1..Len(out.entries) :
              batch[out.entries[j].line_number] = out.entries[j].raw

\* two records, the first with two continuation lines
C12_Witness ==
    /\ out.op = "parse_lines_multiline"
    /\ batch = <<<<"L">>, <<"#">>, <<"x">>, <<"L">>>>
    /\ Len(out.entries) = 2
    /\ out.entries[2].line_number = Len(batch)


(* C13: parse_line returns the record of the first parser whose recognizer  *)
(* matches the line; when none matches it returns the raw record: level     *)
(* Info, the line as message, the given line number, no context and no      *)
(* stack trace.                                                             *)
C13_FirstParserOrRaw ==
    out.op = "parse_line" =>
        LET e == out.entries[1]
            line == batch[1]
        IN /\ e.line_number = out.consumed
           /\ e.raw = line
           /\ e.stack_trace = <<>>
           /\ CanParse(line) => e.format = "laravel" /\ e.level = "parsed"
           /\ ~CanParse(line) =>
                 /\ e.format = "raw"
                 /\ e.level = "info"
                 /\ e.message = line
                 /\ e.context = "none"

\* a Laravel line was handed to parse_line with a line number above 1
C13_Witness ==
    /\ out.op = "parse_line"
    /\ CanParse(batch[1])
    /\ out.consumed > 1
    /\ out.entries[1].format = "laravel"


-----------------------------------------------------------------------------
(* Properties of the registry *)

\* the step in which the command `call` returns
Returns(call) == hist'.last # hist.last /\ hist'.last.call = call

(* C14: watch_file on a path that does not exist fails with FileNotFound,   *)
(* and on a directory with NotAFile; in both cases no FileState is added    *)
(* and is_watching(path) is what it was.                                    *)
C14_WatchFileErrors ==
    [][\A path \in {F, G, H, D} :
          (/\ Returns("add_file")
           /\ cmd.pc = "idle"
           /\ hist'.last.arg = path
           /\ path \notin DOMAIN path_to_source) =>
              /\ ~Exists(path) =>
                    hist'.last.ret = "FileNotFound" /\ file_states' = file_states
              /\ path \in Dirs =>
                    hist'.last.ret = "NotAFile" /\ file_states' = file_states]_vars

\* add_file was called on a file that was deleted, and returned FileNotFound
C14_Witness ==
    /\ hist.last = Last("add_file", G, "FileNotFound")
    /\ G \notin DOMAIN fs
    /\ G \notin DOMAIN file_states


\* the registry and the tracked paths as the returning command found them
Before == IF cmd.pc = "idle" THEN Snapshot ELSE hist.pre

(* C15: when add_file or add_folder returns an error, sources,              *)
(* path_to_source, entries and the id counter are as before the call, and   *)
(* the call has added no path to the watcher's tracked paths.               *)
C15_ErrorLeavesNoTrace ==
    [][((Returns("add_file") \/ Returns("add_folder")) /\ hist'.last.ret # "ok") =>
          /\ sources' = Before.sources
          /\ path_to_source' = Before.path_to_source
          /\ entries' = Before.entries
          /\ next_id' = Before.next_id
          /\ DOMAIN file_states' \subseteq Before.tracked]_vars


(* C16: unwatch(path) fails with NotWatching and changes nothing when the   *)
(* path is not tracked; when it succeeds the path is not tracked any more   *)
(* and the tracking of every other path is unchanged.  Stated on the call   *)
(* remove_source makes.                                                     *)
C16_UnwatchResult ==
    [][\A path \in Files \cup Dirs :
          (Returns("remove_source") /\ hist'.last.arg = path) =>
              /\ path \notin DOMAIN file_states =>
                    /\ hist'.unwatch = "NotWatching"
                    /\ file_states' = file_states
                    /\ watched' = watched
              /\ hist'.unwatch = "ok" =>
                    /\ path \notin DOMAIN file_states'
                    /\ DOMAIN file_states' = DOMAIN file_states \ {path}
                    /\ \A q \in DOMAIN file_states' : file_states'[q] = file_states[q]
                    /\ watched' = watched \ {path}]_vars

\* the file source of G was removed and its unwatch succeeded, while H stays
\* tracked
C16_Witness ==
    /\ hist.last = Last("remove_source", G, "ok")
    /\ hist.unwatch = "ok"
    /\ G \notin DOMAIN file_states
    /\ H \in DOMAIN file_states


(* C17: when unwatch_all, called by clear_all_sources, returns, the watcher *)
(* tracks no path and the registry holds no source, no path mapping and no  *)
(* ledger, also when the backend failed to unwatch some of the paths.       *)
C17_TeardownClearsAll ==
    [][(cmd.pc = "clear" /\ cmd'.pc = "idle") =>
          /\ file_states' = <<>>
          /\ sources' = <<>>
          /\ path_to_source' = <<>>
          /\ entries' = <<>>]_vars

\* clear_all_sources returned after the backend refused to unwatch a path
C17_Witness ==
    /\ hist.last.call = "clear_all_sources"
    /\ hist.unwatch = "WatcherError"
    /\ cmd.pc = "idle"
    /\ file_states = <<>>
    /\ sources = <<>>


(* C18: when remove_source(id) returns Ok, the source, its ledger and its   *)
(* path mapping are gone and the watcher tracks no path that was registered *)
(* for the source: not the file of a File source (stated for a file the     *)
(* backend still watches), and none of the files the pre-scan of a Folder   *)
(* source registered (stated for those that are not sources themselves).    *)
C18_RemoveUntracks ==
    [][\A id \in DOMAIN sources :
          (Returns("remove_source") /\ id \notin DOMAIN sources') =>
              /\ id \notin DOMAIN entries'
              /\ sources[id].path \notin DOMAIN path_to_source'
              /\ sources[id].path \in watched =>
                    sources[id].path \notin DOMAIN file_states'
              /\ sources[id].source_type = "Folder" =>
                    (hist.scanned \ DOMAIN path_to_source') \cap DOMAIN file_states' = {}]_vars

(* C19: an event that was in the queue for a path when the path's source    *)
(* was removed changes no ledger and no source when the consumer processes  *)
(* it, whatever commands ran in between.                                    *)
C19_StaleEventIsNoOp ==
    [][(/\ event_rx # <<>>
        /\ event_rx' = Tail(event_rx)
        /\ 1 \in hist.stale) =>
           /\ entries' = entries
           /\ sources' = sources]_vars


-----------------------------------------------------------------------------
(* Properties of the lookup *)

(* C20: get_source_id_for_path returns the id mapped to the exact path when *)
(* there is one; otherwise the id of the Folder source D when D is a source *)
(* and the path is a file below D whose name matches the glob; otherwise    *)
(* None: for the file E of a sibling directory and for the file Z whose     *)
(* name does not match.                                                     *)
C20_LookupResult ==
    [][(out.op = "none" /\ out'.op = "get_source_id_for_path") =>
          LET path == out'.arg
              id == out'.consumed
          IN IF path \in DOMAIN path_to_source
             THEN id = path_to_source[path]
             ELSE IF D \in DOMAIN path_to_source /\ path \in {G, H, N}
             THEN id = path_to_source[D]
             ELSE id = NoSource]_vars

\* the file H of the folder source D was looked up
C20_Witness ==
    /\ out.op = "get_source_id_for_path"
    /\ out.arg = H
    /\ D \in DOMAIN path_to_source
    /\ out.consumed = path_to_source[D]

\* the sources of type Folder that `path` is a member of: its directory is
\* the source's path and its name matches the source's pattern
FoldersOf(path) ==
    {b \in DOMAIN sources :
        /\ sources[b].source_type = "Folder"
        /\ Parent(path) = sources[b].path
        /\ GlobMatches(sources[b].pattern, FileName(path))}

(* C21: a path is associated with at most one source: no two sources have   *)
(* the same path, and the file of a File source is not a member of a Folder *)
(* source at the same time.                                                 *)
C21_OnePathOneSource ==
    /\ \A a, b \in DOMAIN sources : sources[a].path = sources[b].path => a = b
    /\ \A a \in DOMAIN sources :
          sources[a].source_type = "File" => FoldersOf(sources[a].path) = {}

-----------------------------------------------------------------------------
(* Properties of the commands on source ids *)

\* a command on a source id returns `op` in this step
Answers(op) == out.op = "none" /\ out'.op = op

\* the ledger of `id`, empty for an id without one
LedgerOf(id) == IF id \in DOMAIN entries THEN entries[id] ELSE <<>>

\* the application state and the tracked paths are left as they were
StateUnchanged ==
    UNCHANGED <<sources, path_to_source, entries, next_id, file_states, watched>>

(* C22: get_entries(id, None) returns the whole ledger of id, and           *)
(* get_entries(id, Some(n)) its last min(n, len) records in their order; it *)
(* changes no state, and a second call with no mutation in between returns *)
(* the same sequence.                                                       *)
C22_GetEntries ==
    [][/\ Answers("get_entries") =>
            LET ledger == LedgerOf(out'.id)
                n == out'.limit
                k == IF n < Len(ledger) THEN n ELSE Len(ledger)
            IN /\ n = NoLimit => out'.entries = ledger
               /\ n # NoLimit =>
                     /\ Len(out'.entries) = k
                     /\ \A i \in 1..k :
                           out'.entries[i] = ledger[Len(ledger) - k + i]
               /\ StateUnchanged
       /\ (out.op = "get_entries" /\ out'.op = "get_entries") =>
            /\ out'.entries = out.entries
            /\ StateUnchanged]_vars

\* get_entries was called twice with limit 1 on a ledger of two records or
\* more, and returned the last record
C22_Witness ==
    /\ out.op = "get_entries"
    /\ out.consumed = 2
    /\ out.limit = 1
    /\ out.id \in DOMAIN entries
    /\ Len(entries[out.id]) >= 2
    /\ out.entries = <<entries[out.id][Len(entries[out.id])]>>

-----------------------------------------------------------------------------
(* Properties of the ledger *)

IsPrefix(s, t) == Len(s) <= Len(t) /\ SubSeq(t, 1, Len(s)) = s

\* the consumer takes an event of type `type` in this step
Consumes(type) ==
    /\ event_rx # <<>>
    /\ event_rx' = Tail(event_rx)
    /\ Head(event_rx).type = type

(* C23: for every source, a step of any operation other than clear_entries, *)
(* the handling of FileTruncated, remove_source and clear_all_sources       *)
(* leaves the ledger it had as a prefix of the ledger it has; clear_entries *)
(* and the handling of FileTruncated empty the ledger and leave the source, *)
(* with its status, in the registry.                                        *)
C23_AppendOnly ==
    [][\A id \in DOMAIN sources :
          LET cleared == Answers("clear_entries") /\ out'.id = id
              truncated == /\ Consumes("FileTruncated")
                           /\ SourceIdsForPath(Head(event_rx).path) = {id}
              removed == id \notin DOMAIN sources'
          IN /\ ~(Answers("clear_entries") \/ Consumes("FileTruncated") \/ removed) =>
                   /\ id \in DOMAIN entries'
                   /\ IsPrefix(entries[id], entries'[id])
             /\ (cleared \/ truncated) =>
                   /\ id \in DOMAIN entries'
                   /\ entries'[id] = <<>>
                   /\ id \in DOMAIN sources'
                   /\ sources'[id] = sources[id]]_vars

\* a FileTruncated event emptied the ledger of a paused source, which read
\* its file again afterwards
C23_Witness ==
    /\ hist.after_trunc
    /\ 1 \in DOMAIN sources
    /\ sources[1].status = "Paused"
    /\ out.op = "read_initial_content"
    /\ entries[1] = out.entries
    /\ out.entries # <<>>

-----------------------------------------------------------------------------
(* Properties of the pipeline *)

\* a source-status event was emitted
StatusEmitted == hist.status_event # NoStatusEvent

\* every notification was classified and every event was processed
Drained == notify_rx = <<>> /\ cl.pc = "idle" /\ event_rx = <<>>

(* C24: the handling of an Error or FileDeleted event sets the status of    *)
(* the source of the path to Error with a message and emits a source-status *)
(* event with them; afterwards the pipeline goes on: a ContentAppended      *)
(* event is still appended to the ledger of its source, and every           *)
(* notification that arrives is classified and delivered.                   *)
C24_ErrorDoesNotStop ==
    /\ [][\A id \in DOMAIN sources :
             /\ (/\ Consumes("Error") \/ Consumes("FileDeleted")
                 /\ SourceIdsForPath(Head(event_rx).path) = {id}) =>
                    /\ sources'[id].status = "Error"
                    /\ sources'[id].error_message # ""
                    /\ hist'.status_event =
                           StatusEvent(id, "Error", sources'[id].error_message)
             /\ (/\ StatusEmitted
                 /\ Consumes("ContentAppended")
                 /\ SourceIdsForPath(Head(event_rx).path) = {id}) =>
                    Len(entries'[id]) = Len(entries[id])
                                           + Len(ContentLines(Head(event_rx).content))]_vars
    /\ StatusEmitted ~> Drained

\* the source of F is in error, and the one line of G, appended after the
\* source-status event, is in the ledger of G
C24_Witness ==
    /\ hist.after_status
    /\ F \in DOMAIN path_to_source
    /\ sources[path_to_source[F]].status = "Error"
    /\ Len(FileLines(G)) = 1
    /\ Len(Ledger(G)) = 1

\* the classifier thread takes a notification of kind `kind` in this step
Receives(kind) ==
    /\ cl.pc = "idle"
    /\ notify_rx # <<>>
    /\ notify_rx' = Tail(notify_rx)
    /\ Head(notify_rx).kind = kind

(* C25: on a Remove notification for a file the classifier removes the      *)
(* FileState of that path and emits one FileDeleted event for it; the       *)
(* FileState of every other path is unchanged.                              *)
C25_RemoveForgetsPath ==
    [][Receives("Remove") =>
          LET path == Head(notify_rx).path
          IN /\ path \notin DOMAIN file_states'
             /\ DOMAIN file_states' = DOMAIN file_states \ {path}
             /\ \A q \in DOMAIN file_states' : file_states'[q] = file_states[q]
             /\ event_rx' = Append(event_rx, Event("FileDeleted", path, <<>>, 0))]_vars

\* the removal of F was classified: F is not tracked, G is, and FileDeleted
\* is queued
C25_Witness ==
    /\ F \notin DOMAIN file_states
    /\ G \in DOMAIN file_states
    /\ \E i \in 1..Len(event_rx) :
          event_rx[i].type = "FileDeleted" /\ event_rx[i].path = F

\* the read of the appended range fails in this step: the file does not
\* open, or one of the lines from the stored offset on does not read
ReadFails ==
    \/ cl.path \notin DOMAIN fs
    \/ \E i \in 1..Len(LinesRead(fs[cl.path], cl.previous_size, cl.current_size)) :
          IsInvalid(LinesRead(fs[cl.path], cl.previous_size, cl.current_size)[i])

(* C26: when the read of the appended range fails (the file does not open,  *)
(* a line does not read), the classifier emits an Error event with the path  *)
(* and a message and does not go on to store the new size.                  *)
C26_ReadFailuresSurface ==
    [][(ClStep("read") /\ ReadFails) =>
          /\ Len(event_rx') = Len(event_rx) + 1
          /\ event_rx'[Len(event_rx')].type = "Error"
          /\ event_rx'[Len(event_rx')].path = cl.path
          /\ event_rx'[Len(event_rx')].message # ""
          /\ cl'.pc = "idle"]_vars

(* C27: for an id that is not in the registry get_source returns None,      *)
(* get_entries returns no record, clear_entries does nothing, and           *)
(* remove_source, update_status and read_initial_content return the error   *)
(* "Source not found"; none of them changes the registry, the ledgers or    *)
(* the tracked paths.                                                       *)
C27_MissingId ==
    [][(out.op = "none" /\ out'.op # "none" /\ out'.id \notin DOMAIN sources
        /\ out'.op \in {"get_source", "get_entries", "clear_entries",
                        "remove_source", "update_status", "read_initial_content"}) =>
          /\ StateUnchanged
          /\ out'.entries = <<>>
          /\ out'.op = "get_source" => out'.ret = "None"
          /\ out'.op \in {"remove_source", "update_status", "read_initial_content"} =>
                out'.ret = "Source not found"]_vars

\* update_status was called with the id of a source that was removed, while
\* another source is registered
C27_Witness ==
    /\ out.op = "update_status"
    /\ out.id < next_id
    /\ out.id \notin DOMAIN sources
    /\ sources # <<>>
    /\ out.ret = "Source not found"

\* the classifier thread keeps running
ClassifierFairness ==
    /\ WF_vars(ClReceive)
    /\ WF_vars(ClLock)
    /\ WF_vars(ClRead)
    /\ WF_vars(ClUpdate)

\* every notification was classified
Classified == notify_rx = <<>> /\ cl.pc = "idle"

\* the queue of events changes by one event sent at its end or by the
\* consumer taking its first event
QueueIsFifo ==
    event_rx' # event_rx =>
        \/ event_rx # <<>> /\ event_rx' = Tail(event_rx)
        \/ /\ Len(event_rx') = Len(event_rx) + 1
           /\ SubSeq(event_rx', 1, Len(event_rx)) = event_rx

(* C28: the events the classifier emits are processed by the consumer in    *)
(* the order in which they were emitted, each once: the queue is FIFO, the  *)
(* ledgers and the sources change only in the step that takes the first     *)
(* event of the queue, which applies that event; the classifier sends its   *)
(* event whatever the queue holds, and classifies every notification also   *)
(* when the consumer never runs; when both threads run, every event is      *)
(* processed.                                                               *)
C28_EveryEventOnceInOrder ==
    /\ [][/\ QueueIsFifo
          /\ (entries' # entries \/ sources' # sources) =>
                event_rx # <<>> /\ event_rx' = Tail(event_rx)
          /\ \A id \in DOMAIN sources :
                (/\ Consumes("ContentAppended")
                 /\ SourceIdsForPath(Head(event_rx).path) = {id}) =>
                    entries'[id] =
                        entries[id] \o ContentEntries(Head(event_rx).content,
                                                      Head(event_rx).line_number)
          /\ (/\ ClStep("read")
              /\ cl.path \in DOMAIN fs
              /\ NewContent(UntilError(LinesRead(fs[cl.path], cl.previous_size,
                                                 cl.current_size))) # <<>>) =>
                Len(event_rx') = Len(event_rx) + 1]_vars
    /\ ClassifierFairness => <>[]Classified
    /\ PipelineFairness => <>[]Drained

\* two events for G are queued behind one another, and one was processed
\* before
C28_Witness ==
    /\ Len(event_rx) >= 2
    /\ event_rx[1].path = G
    /\ event_rx[2].path = G
    /\ Ledger(G) # <<>>

-----------------------------------------------------------------------------
(* Properties of read_initial_content *)

\* the last min(max_lines, L) of the L lines of a file, each with its
\* position in the file
LastLines(path, max_lines) ==
    LET all == ReaderLines(fs[path])
        L == Len(all)
        k == IF max_lines = NoLimit \/ max_lines > L THEN L ELSE max_lines
    IN [i \in 1..k |-> <<L - k + i, all[L - k + i]>>]

-----------------------------------------------------------------------------
(* Properties of the window manager *)

\* index i is unused or mapped to the window `label`
IndexFree(label, i) ==
    i \notin DOMAIN wm.index_to_label \/ wm.index_to_label[i] = label

(* C30: update_index(label, i) succeeds only when i is unused or mapped to  *)
(* label already; when it succeeds the old index of the window is no longer *)
(* mapped, i maps to label, the window records i, and no other window or    *)
(* index changes; when i is held by another window or label is not a        *)
(* window, it fails and windows and index_to_label are unchanged.           *)
C30_UpdateIndex ==
    [][(/\ out'.op = "set_window_index"
        /\ out'.new_index \in 1..MaxIndex) =>
            LET label == out'.label
                i == out'.new_index
            IN IF IndexFree(label, i) /\ label \in DOMAIN wm.windows
               THEN LET old == wm.windows[label].window_index
                    IN /\ out'.ret = "ok"
                       /\ DOMAIN wm'.windows = DOMAIN wm.windows
                       /\ wm'.windows[label].window_index = i
                       /\ \A l \in DOMAIN wm.windows \ {label} :
                             wm'.windows[l] = wm.windows[l]
                       /\ DOMAIN wm'.index_to_label =
                             (DOMAIN wm.index_to_label \ {old}) \cup {i}
                       /\ wm'.index_to_label[i] = label
                       /\ \A j \in DOMAIN wm.index_to_label \ {old, i} :
                             wm'.index_to_label[j] = wm.index_to_label[j]
               ELSE /\ out'.ret \in {IndexInUse, WindowNotFound}
                    /\ wm' = wm]_vars

\* a window was moved from index 1 to another index while a second window
\* exists: index 1 is free again
C30_Witness ==
    /\ out.op = "set_window_index"
    /\ out.ret = "ok"
    /\ out.label \in DOMAIN wm.windows
    /\ wm.windows[out.label].window_index = out.new_index
    /\ wm.index_to_label[out.new_index] = out.label
    /\ Cardinality(DOMAIN wm.windows) >= 2
    /\ 1 \notin DOMAIN wm.index_to_label

-----------------------------------------------------------------------------
(* Properties of the locking *)

(* C31: the state a classifier step writes is computed from the pair the    *)
(* path has: when the last lock of handle_file_modification stores the new  *)
(* size and line_number of a path whose stored size it had read as positive *)
(* under the first lock, the path is still tracked with that size; no watch *)
(* or unwatch has replaced the pair in between.                             *)
C31_StepIsAtomic ==
    [][(/\ ClStep("update")
        /\ cl.previous_size > 0
        /\ cl.path \in DOMAIN file_states) => TrackedAsRead]_vars

-----------------------------------------------------------------------------
(* Properties of creations and renames *)

(* C32: classifying a Create notification leaves file_states unchanged and  *)
(* sends one FileCreated event for the path; classifying the notification   *)
(* of a rename leaves file_states unchanged and sends nothing; no event in  *)
(* the queue is ever a FileRenamed.                                         *)
C32_CreateAndRenameKeepState ==
    [][/\ Receives("Create") =>
             /\ file_states' = file_states
             /\ event_rx' = Append(event_rx,
                                   Event("FileCreated", Head(notify_rx).path, <<>>, 0))
             /\ cl' = ClIdle
       /\ Receives("Rename") =>
             /\ file_states' = file_states
             /\ event_rx' = event_rx
             /\ cl' = ClIdle
       /\ \A i \in DOMAIN event_rx' : event_rx'[i].type # "FileRenamed"]_vars

\* x.log was renamed to y.log and then created again; both notifications of
\* the rename and the Create were classified: y.log is not tracked, x.log is
\* tracked with the state it had
C32_Witness ==
    /\ hist.writes = 2
    /\ {G, H} \subseteq DOMAIN fs
    /\ fs[G] = <<>>
    /\ notify_rx = <<>>
    /\ cl.pc = "idle"
    /\ H \notin DOMAIN file_states
    /\ file_states[G] = [size |-> 4, line_number |-> 2]
    /\ \E i \in DOMAIN event_rx : event_rx[i] = Event("FileCreated", G, <<>>, 0)

-----------------------------------------------------------------------------
(* Properties of a modification of a file that is gone *)

(* C33: when the metadata read of a Modify notification fails, the          *)
(* classifier sends no event, changes no FileState and is ready for the     *)
(* next notification; the Remove notification handled in that state removes *)
(* the FileState of the path and sends FileDeleted.                         *)
C33_MetadataFailureIsNoOp ==
    [][/\ (Receives("Modify") /\ ~MetadataOk(Head(notify_rx).path)) =>
             /\ file_states' = file_states
             /\ event_rx' = event_rx
             /\ cl' = ClIdle
       /\ (Receives("Remove") /\ ~MetadataOk(Head(notify_rx).path)) =>
             /\ file_states' = Remove(file_states, Head(notify_rx).path)
             /\ Len(event_rx') = Len(event_rx) + 1
             /\ event_rx'[Len(event_rx')].type = "FileDeleted"
             /\ event_rx'[Len(event_rx')].path = Head(notify_rx).path]_vars

\* F was appended to and deleted before its Modify was handled; the Modify
\* has been taken, nothing was sent or stored for it, and the Remove is next
C33_Witness ==
    /\ hist.writes = 2
    /\ F \notin DOMAIN fs
    /\ fs[G] = <<>>
    /\ notify_rx = <<[kind |-> "Remove", path |-> F]>>
    /\ cl.pc = "idle"
    /\ event_rx = <<>>
    /\ F \in DOMAIN file_states
    /\ file_states[F].size = 0
    /\ \A id \in DOMAIN entries : entries[id] = <<>>

-----------------------------------------------------------------------------
(* Properties of the registry as a whole *)

(* C34: the registry is consistent in every state: sources and entries have *)
(* the same ids, path_to_source maps different paths to different ids, its  *)
(* values are the ids of sources, and the path of every source maps to the  *)
(* id of that source.                                                       *)
C34_RegistryConsistent ==
    /\ DOMAIN sources = DOMAIN entries
    /\ \A p, q \in DOMAIN path_to_source :
          path_to_source[p] = path_to_source[q] => p = q
    /\ {path_to_source[p] : p \in DOMAIN path_to_source} = DOMAIN sources
    /\ \A id \in DOMAIN sources :
          /\ sources[id].path \in DOMAIN path_to_source
          /\ path_to_source[sources[id].path] = id

\* two sources were added and the first was removed
C34_Witness ==
    /\ next_id = 3
    /\ DOMAIN sources = {2}
    /\ hist.last.call = "remove_source"
    /\ cmd.pc = "idle"

-----------------------------------------------------------------------------
(* Properties of the ledger of a file that only grows *)

StrictlyIncreasing(numbers) ==
    \A i \in 1..(Len(numbers) - 1) : numbers[i] < numbers[i + 1]

(* C35: while the file F has not been truncated, the line numbers of the    *)
(* records in the ledger of its source are strictly increasing, whatever    *)
(* the order of read_initial_content and the processing of ContentAppended.  *)
C35_NoLineTwice ==
    hist.truncs = 0 => StrictlyIncreasing(LineNumbers(Ledger(F)))

-----------------------------------------------------------------------------
(* Properties of lines written in parts *)

\* the file is empty or ends with a line terminator
EndsWithNewline(bytes) == bytes = <<>> \/ bytes[Len(bytes)] = NL

\* every record of the ledger of F holds a whole line of F
WholeLines ==
    \A i \in 1..Len(Ledger(F)) :
        \E k \in 1..Len(FileLines(F)) : FileLines(F)[k] = Ledger(F)[i].raw

\* the stored line_number of F is the number of lines in its first `size`
\* bytes
LineNumberMatchesSize ==
    file_states[F].line_number =
        Len(ReaderLines(SubSeq(fs[F], 1, file_states[F].size)))

(* C36: a ContentAppended batch holds complete lines only: once the file    *)
(* ends with a terminator, every record delivered for it is a whole line of *)
(* the file, also when the line reached the file in two writes; and the     *)
(* stored line_number is the number of lines in the first `size` bytes.     *)
C36_CompleteLinesOnly ==
    /\ EndsWithNewline(fs[F]) => WholeLines
    /\ LineNumberMatchesSize

-----------------------------------------------------------------------------
(* Properties of a file at rest *)

\* the lines of F written since the watch began, or since the last
\* truncation: all of them are lines of text
WrittenLines ==
    IF hist.truncs = 0 THEN Len(FileLines(F)) - hist.watch_n
    ELSE Len(FileLines(F))

(* C37: once every notification for F has been classified and every event  *)
(* processed, the stored size of F is the size of the file, and every line  *)
(* written since the watch began or since the last truncation was emitted:  *)
(* the ledger, which the events fill and only a FileTruncated empties,      *)
(* holds at least as many records as such lines were written.               *)
C37_QuiescentCaughtUp ==
    (Drained /\ F \in DOMAIN file_states) =>
        /\ file_states[F].size = Len(fs[F])
        /\ WrittenLines <= Len(Ledger(F))

-----------------------------------------------------------------------------
(* Properties of the threads *)

-----------------------------------------------------------------------------
(* Properties of the two maps of the window manager *)

(* C39: after any sequence of create_log_window, close_log_window, window   *)
(* close events and set_window_index the two maps describe one bijection:   *)
(* every registered window has an index of 1..9, index_to_label maps that   *)
(* index to the label of the window (so no other window holds it), every    *)
(* index of index_to_label maps to a registered window that has this index, *)
(* and no source has two windows.                                           *)
C39_WindowsBijection ==
    /\ \A label \in DOMAIN wm.windows :
          LET info == wm.windows[label]
          IN /\ info.label = label
             /\ info.window_index \in 1..MaxIndex
             /\ info.window_index \in DOMAIN wm.index_to_label
             /\ wm.index_to_label[info.window_index] = label
    /\ \A i \in DOMAIN wm.index_to_label :
          /\ wm.index_to_label[i] \in DOMAIN wm.windows
          /\ wm.windows[wm.index_to_label[i]].window_index = i
    /\ \A l1, l2 \in DOMAIN wm.windows :
          wm.windows[l1].source_id = wm.windows[l2].source_id => l1 = l2

\* a window was closed after another was moved to the last index: two
\* windows remain, one of them at index 9, and index 1 is free again
C39_Witness ==
    /\ out.op = "close"
    /\ Cardinality(DOMAIN wm.windows) = 2
    /\ \E label \in DOMAIN wm.windows : wm.windows[label].window_index = MaxIndex
    /\ GetNextIndex(wm) = 1

-----------------------------------------------------------------------------
(* Properties of the line numbers of an event *)

(* C40: the subtraction line_number - (number of lines of content) of       *)
(* ContentAppended processing never goes below zero: every ContentAppended  *)
(* event the classifier has sent carries a line_number that is at least the *)
(* number of lines of its content, and every record of a ledger has a line  *)
(* number of at least 1.                                                    *)
C40_NoUnderflow ==
    /\ \A i \in 1..Len(event_rx) :
          event_rx[i].type = "ContentAppended" =>
              event_rx[i].line_number >= Len(ContentLines(event_rx[i].content))
    /\ \A id \in DOMAIN entries : \A k \in 1..Len(entries[id]) :
          entries[id][k].line_number >= 1

\* an event whose line_number equals the number of lines of its content
\* waits for the consumer while a record numbered 1 is in the ledger
C40_Witness ==
    /\ \E i \in 1..Len(event_rx) :
          /\ event_rx[i].type = "ContentAppended"
          /\ event_rx[i].line_number = Len(ContentLines(event_rx[i].content))
    /\ \E id \in DOMAIN entries : \E k \in 1..Len(entries[id]) :
          entries[id][k].line_number = 1

====
